---- MODULE Spec2Model ----
(***************************************************************************)
(* msplink: host side of the Multi-Wii Serial Protocol (MSP).              *)
(* The module models the checksum primitives (checksums.c), the serial    *)
(* transport (serial.c), the frame encoder (send.c), the frame decoder    *)
(* (parse.c) and the Python-facing transaction layer (msplink.c).         *)
(***************************************************************************)
EXTENDS Integers, Sequences, FiniteSets, TLC

(***************************************************************************)
(* Program constants                                                       *)
(***************************************************************************)
READ_BUFFER_SIZE == 1024
MSP_RETRY_DEFAULT == 3
MAX_SYNC_SEARCH_BYTES == 50

MSP_OK == 0
MSP_SYSCALL_FAIL == -1
MSP_LIB_INTERNAL_ERROR == -2
MSP_TX_FAIL == -3
MSP_RX_FAIL == -4
MSP_RX_SYNC_NOT_FOUND == -5
MSP_RX_CHECKSUM_MISMATCH == -6
MSP_OUT_OF_MEMORY == -7
MSP_RX_CLIENT_NACK == -8

\* 'M', 'X', '<', '>', '!' and the sync byte '$' as character codes
MSP_V1 == 77
MSP_V2 == 88
MSP_DIR_TOCLIENT == 60
MSP_DIR_TOHOST == 62
MSP_DIR_ERROR == 33
SYNC_BYTE == 36

Min(a, b) == IF a < b THEN a ELSE b

(***************************************************************************)
(* checksums.c                                                             *)
(***************************************************************************)
CRC8_DVB_S2_LUT == <<
    0, 213, 127, 170, 254, 43, 129, 84, 41, 252, 86, 131, 215, 2, 168, 125,
    82, 135, 45, 248, 172, 121, 211, 6, 123, 174, 4, 209, 133, 80, 250, 47,
    164, 113, 219, 14, 90, 143, 37, 240, 141, 88, 242, 39, 115, 166, 12, 217,
    246, 35, 137, 92, 8, 221, 119, 162, 223, 10, 160, 117, 33, 244, 94, 139,
    157, 72, 226, 55, 99, 182, 28, 201, 180, 97, 203, 30, 74, 159, 53, 224,
    207, 26, 176, 101, 49, 228, 78, 155, 230, 51, 153, 76, 24, 205, 103, 178,
    57, 236, 70, 147, 199, 18, 184, 109, 16, 197, 111, 186, 238, 59, 145, 68,
    107, 190, 20, 193, 149, 64, 234, 63, 66, 151, 61, 232, 188, 105, 195, 22,
    239, 58, 144, 69, 17, 196, 110, 187, 198, 19, 185, 108, 56, 237, 71, 146,
    189, 104, 194, 23, 67, 150, 60, 233, 148, 65, 235, 62, 106, 191, 21, 192,
    75, 158, 52, 225, 181, 96, 202, 31, 98, 183, 29, 200, 156, 73, 227, 54,
    25, 204, 102, 179, 231, 50, 152, 77, 48, 229, 79, 154, 206, 27, 177, 100,
    114, 167, 13, 216, 140, 89, 243, 38, 91, 142, 36, 241, 165, 112, 218, 15,
    32, 245, 95, 138, 222, 11, 161, 116, 9, 220, 118, 163, 247, 34, 136, 93,
    214, 3, 169, 124, 40, 253, 87, 130, 255, 42, 128, 85, 1, 212, 126, 171,
    132, 81, 251, 46, 122, 175, 5, 208, 173, 120, 210, 7, 83, 134, 44, 249
>>

\* the C operator ^ on two values of n bits
RECURSIVE XorBits(_, _, _)
XorBits(a, b, n) ==
    IF n = 0 THEN 0
    ELSE (((a % 2) + (b % 2)) % 2) + (2 * XorBits(a \div 2, b \div 2, n - 1))

Xor8(a, b) == XorBits(a, b, 8)

\* one step of the table-driven CRC: crc = LUT[crc ^ byte]
crc8_step(crc, byte) == CRC8_DVB_S2_LUT[Xor8(crc, byte) + 1]

\* the while loop of checksum_crc8_dvb_s2 over data[lo..hi], left to right
\* (the first half is evaluated before the second half starts from its result)
RECURSIVE crc8_range(_, _, _, _)
crc8_range(data, lo, hi, crc) ==
    IF lo > hi THEN crc
    ELSE IF lo = hi THEN crc8_step(crc, data[lo])
    ELSE LET mid  == (lo + hi) \div 2
             left == crc8_range(data, lo, mid, crc)
         IN  IF left \in 0..255 THEN crc8_range(data, mid + 1, hi, left) ELSE left

\* a CRC that starts from 0 whatever seed it is given
checksum_crc8_dvb_s2_unseeded(data, size, crc) == crc8_range(data, 1, size, 0)

checksum_crc8_dvb_s2(data, size, crc) == crc8_range(data, 1, size, crc)

\* the for loop of checksum_xor over data[lo..hi], left to right
RECURSIVE xor_range(_, _, _, _)
xor_range(data, lo, hi, checksum) ==
    IF lo > hi THEN checksum
    ELSE IF lo = hi THEN Xor8(checksum, data[lo])
    ELSE LET mid  == (lo + hi) \div 2
             left == xor_range(data, lo, mid, checksum)
         IN  IF left \in 0..255 THEN xor_range(data, mid + 1, hi, left) ELSE left

checksum_xor(data, size, checksum) == xor_range(data, 1, size, checksum)

(***************************************************************************)
(* serial.c: the transport.  The output side of the line is a record      *)
(*   out     bytes the OS accepted so far                                  *)
(*   writes  number of write() calls issued                                *)
(*   failAt  ordinal of the write() call that misbehaves (0: none)         *)
(*   failKind "errno" (write returns -1) or "short" (accepts `accept`)     *)
(* and the input side is a record                                          *)
(*   q       bytes waiting in the input queue                              *)
(*   pend    chunks still to arrive, one per 0.1 s read timeout            *)
(*   reads   number of read() calls issued                                 *)
(*   failAt  ordinal of the read() call that returns -1 (0: none)          *)
(*   drains  number of tcdrain() calls, drainFails: tcdrain returns -1     *)
(***************************************************************************)
NoTx == [out |-> <<>>, writes |-> 0, failAt |-> 0, failKind |-> "errno", accept |-> 0]

NoRx == [q |-> <<>>, pend |-> <<>>, reads |-> 0, failAt |-> 0,
         drains |-> 0, drainFails |-> FALSE]

RxOf(bytes) == [NoRx EXCEPT !.q = bytes]

\* write(fd, data, len): the value returned and the bytes accepted
os_write(tx, data, len) ==
    LET n == tx.writes + 1
        k == IF n = tx.failAt THEN Min(tx.accept, len) ELSE len
    IN  IF n = tx.failAt /\ tx.failKind = "errno"
        THEN [ret |-> -1, tx |-> [tx EXCEPT !.writes = n]]
        ELSE [ret |-> k,
              tx  |-> [tx EXCEPT !.writes = n, !.out = @ \o SubSeq(data, 1, k)]]

msplink_write(tx, data, len) ==
    LET w == os_write(tx, data, len)
    IN  IF w.ret < 0 THEN [ret |-> MSP_SYSCALL_FAIL, tx |-> w.tx]
        ELSE IF w.ret # len THEN [ret |-> MSP_TX_FAIL, tx |-> w.tx]
        ELSE [ret |-> MSP_OK, tx |-> w.tx]

\* read(fd, buf, n) with VMIN=0, VTIME=1: whatever is queued, up to n bytes;
\* on an empty queue the call waits one timeout for the next chunk
os_read(rx, n) ==
    LET c    == rx.reads + 1
        wait == n > 0 /\ rx.q = <<>> /\ rx.pend # <<>>
        avail == IF wait THEN Head(rx.pend) ELSE rx.q
        rest  == IF wait THEN Tail(rx.pend) ELSE rx.pend
        k    == Min(n, Len(avail))
    IN  IF c = rx.failAt
        THEN [ret |-> -1, data |-> <<>>, rx |-> [rx EXCEPT !.reads = c]]
        ELSE [ret |-> k, data |-> SubSeq(avail, 1, k),
              rx  |-> [rx EXCEPT !.reads = c,
                                 !.q = SubSeq(avail, k + 1, Len(avail)),
                                 !.pend = rest]]

\* the retry loop of msplink_read; acc is what has been stored through buf
RECURSIVE read_loop(_, _, _, _, _, _)
read_loop(rx, len, remaining_cnt, i, read_retries, acc) ==
    IF ~(i < read_retries)
    THEN [ret |-> MSP_RX_FAIL, data |-> acc, rx |-> rx]
    ELSE LET r == os_read(rx, remaining_cnt)
         IN  IF r.ret < 0
             THEN [ret |-> MSP_SYSCALL_FAIL, data |-> acc, rx |-> r.rx]
             ELSE IF remaining_cnt = 0
             THEN [ret |-> len, data |-> acc, rx |-> r.rx]
             ELSE read_loop(r.rx, len, remaining_cnt - r.ret, i + 1,
                            read_retries, acc \o r.data)

\* a read that gives up after its first read call
msplink_read_once(rx, len, read_retries) == read_loop(rx, len, len, 0, 1, <<>>)

msplink_read(rx, len, read_retries) == read_loop(rx, len, len, 0, read_retries, <<>>)

\* a parse that does not wait for the output to drain
msplink_waituntilsent_skipped(rx) == [ret |-> MSP_OK, rx |-> rx]

\* tcdrain(fd)
msplink_waituntilsent(rx) ==
    [ret |-> IF rx.drainFails THEN MSP_SYSCALL_FAIL ELSE MSP_OK,
     rx  |-> [rx EXCEPT !.drains = @ + 1]]

(***************************************************************************)
(* send.c: the frame encoder                                               *)
(***************************************************************************)
\* htole16 stored through the two-byte union
lo8(v) == v % 256
hi8(v) == (v \div 256) % 256

\* a seed that leaves the command byte out of the checksum
v1_checksum_seed_no_cmd(payload_len, cmd) == lo8(payload_len)

\* uint8_t checksum = payload_len ^ cmd: the 16-bit length is cut to 8 bits
v1_checksum_seed(payload_len, cmd) == Xor8(lo8(payload_len), cmd)

\* ret = msplink_write(...); if (ret<0) {return ret;} behind an earlier write:
\* the write is issued only when the function has not returned yet
then_write_always(w, data, len) == msplink_write(w.tx, data, len)

then_write(w, data, len) == IF w.ret < 0 THEN w ELSE msplink_write(w.tx, data, len)

send_V1(tx, cmd, payload, payload_len) ==
    LET jumbo     == payload_len > 254
        size      == IF jumbo THEN 255 ELSE payload_len
        len_le    == <<lo8(payload_len), hi8(payload_len)>>
        checksum0 == v1_checksum_seed(payload_len, cmd)
        checksum1 == IF jumbo THEN Xor8(Xor8(checksum0, len_le[1]), len_le[2])
                     ELSE checksum0
        checksum2 == checksum_xor(payload, payload_len, checksum1)
        w1        == msplink_write(tx, <<SYNC_BYTE, MSP_V1, MSP_DIR_TOCLIENT, size, cmd>>, 5)
        w2        == IF jumbo THEN then_write(w1, len_le, 2) ELSE w1
    IN  then_write(then_write(w2, payload, payload_len), <<checksum2>>, 1)

\* send_V2 declares uint8_t buf[7] and stores eight header bytes: the store
\* of the length's high byte goes to buf[7], one past the array.  What later
\* reads of buf[7] see depends on what the build placed there:
\*   "padding"  nothing else lives there, the byte is read back as stored
\*   "ret"      the low byte of the local int ret, which every returning
\*              msplink_write overwrites with its result
StackLayouts == {"padding", "ret"}

\* uint8_t buf[7]: the number of bytes the local header buffer is declared with
SEND_V2_BUF_SIZE == 7

\* msplink_write(mdev, buf, 8): the number of header bytes handed to the write
SEND_V2_HEADER_LEN == 8

\* checksum_crc8_dvb_s2(&buf[3], 5, 0): first index and number of the header
\* bytes fed to the CRC
SEND_V2_CRC_FROM == 3
SEND_V2_CRC_LEN == 5

\* the stores through pBuf, in order: element i + 1 is what is stored at buf[i]
send_V2_header(flag, cmd, payload_len) ==
    <<SYNC_BYTE, MSP_V2, MSP_DIR_TOCLIENT, flag,
      lo8(cmd), hi8(cmd), lo8(payload_len), hi8(payload_len)>>

send_V2(tx, flag, cmd, payload, payload_len, layout) ==
    LET buf      == send_V2_header(flag, cmd, payload_len)
        w2       == then_write(msplink_write(tx, buf, SEND_V2_HEADER_LEN), payload,
                               payload_len)
        buf7     == IF layout = "ret" THEN lo8(w2.ret + 256) ELSE buf[8]
        checksum == checksum_crc8_dvb_s2(payload, payload_len,
                        checksum_crc8_dvb_s2(<<buf[4], buf[5], buf[6], buf[7], buf7>>, 5, 0))
    IN  then_write(w2, <<checksum>>, 1)

(***************************************************************************)
(* parse.c: the frame decoder.  buf is mdev->buf, kept as the prefix that  *)
(* has ever been written (the rest of the static array is still zero);     *)
(* pkt is the caller's mspPacket_t, whose payload field points into buf.   *)
(* A function is cut at its msplink_read calls: each part takes the result *)
(* r of the read in front of it.                                           *)
(***************************************************************************)
NoPacket == [version |-> 0, direction |-> 0, flag |-> 0, function |-> 0,
             payload_size |-> 0, payload |-> "NULL", checksum |-> 0]

\* storing `data` at the start of mdev->buf
Overwrite(buf, data) == data \o SubSeq(buf, Len(data) + 1, Len(buf))

BufAt(buf, i) == IF i <= Len(buf) THEN buf[i] ELSE 0

le16toh(bytes) == bytes[1] + 256 * bytes[2]

\* a decoder that takes every declared size
too_big_never(payload_size) == FALSE

\* if (pkt->payload_size > READ_BUFFER_SIZE-1) in parse_V1 and parse_V2
too_big(payload_size) == payload_size > READ_BUFFER_SIZE - 1

\* a search for '$' that goes on as long as bytes arrive
RECURSIVE sync_loop_unbounded(_, _, _)
sync_loop_unbounded(rx, i, read_retries) ==
    LET r == msplink_read(rx, 1, read_retries)
    IN  IF r.ret = MSP_RX_FAIL THEN [ret |-> MSP_RX_SYNC_NOT_FOUND, rx |-> r.rx]
        ELSE IF r.ret < 0 THEN [ret |-> r.ret, rx |-> r.rx]
        ELSE IF r.data[1] = SYNC_BYTE THEN [ret |-> MSP_OK, rx |-> r.rx]
        ELSE sync_loop_unbounded(r.rx, i + 1, read_retries)

RECURSIVE sync_loop(_, _, _)
sync_loop(rx, i, read_retries) ==
    IF ~(i < MAX_SYNC_SEARCH_BYTES)
    THEN [ret |-> MSP_RX_SYNC_NOT_FOUND, rx |-> rx]
    ELSE LET r == msplink_read(rx, 1, read_retries)
         IN  IF r.ret = MSP_RX_FAIL THEN [ret |-> MSP_RX_SYNC_NOT_FOUND, rx |-> r.rx]
             ELSE IF r.ret < 0 THEN [ret |-> r.ret, rx |-> r.rx]
             ELSE IF r.data[1] = SYNC_BYTE THEN [ret |-> MSP_OK, rx |-> r.rx]
             ELSE sync_loop(r.rx, i + 1, read_retries)

get_sync(rx, read_retries) == sync_loop(rx, 0, read_retries)

\* parse_V2 behind the read of payload and checksum byte into mdev->buf
parse_V2_payload(r, buf, pkt, checksum) ==
    LET buf2 == Overwrite(buf, r.data)
        pkt2 == [pkt EXCEPT !.payload = "buf",
                            !.checksum = BufAt(buf2, pkt.payload_size + 1)]
    IN  IF r.ret < 0
        THEN [ret |-> r.ret, rx |-> r.rx, buf |-> buf2, pkt |-> pkt]
        ELSE [ret |-> IF pkt2.checksum
                           # checksum_crc8_dvb_s2(buf2, pkt.payload_size, checksum)
                      THEN MSP_RX_CHECKSUM_MISMATCH ELSE MSP_OK,
              rx |-> r.rx, buf |-> buf2, pkt |-> pkt2]

\* parse_V2 behind the read of flag, function and payload size
parse_V2_header(r, buf, pkt, read_retries) ==
    LET pkt1 == [pkt EXCEPT !.flag = r.data[1],
                            !.function = le16toh(<<r.data[2], r.data[3]>>),
                            !.payload_size = le16toh(<<r.data[4], r.data[5]>>)]
    IN  IF r.ret < 0
        THEN [ret |-> r.ret, rx |-> r.rx, buf |-> buf, pkt |-> pkt]
        ELSE IF too_big(pkt1.payload_size)
        THEN [ret |-> MSP_OUT_OF_MEMORY, rx |-> r.rx, buf |-> buf, pkt |-> pkt1]
        ELSE parse_V2_payload(msplink_read(r.rx, pkt1.payload_size + 1, read_retries),
                              buf, pkt1, checksum_crc8_dvb_s2(r.data, 5, 0))

parse_V2(rx, buf, pkt, read_retries) ==
    parse_V2_header(msplink_read(rx, 5, read_retries), buf, pkt, read_retries)

\* parse_V1 behind the read of payload and checksum byte into mdev->buf
parse_V1_payload(r, buf, pkt, checksum) ==
    LET buf2 == Overwrite(buf, r.data)
        pkt2 == [pkt EXCEPT !.payload = "buf",
                            !.checksum = BufAt(buf2, pkt.payload_size + 1)]
    IN  IF r.ret < 0
        THEN [ret |-> r.ret, rx |-> r.rx, buf |-> buf2, pkt |-> pkt]
        ELSE [ret |-> IF pkt2.checksum # checksum_xor(buf2, pkt.payload_size, checksum)
                      THEN MSP_RX_CHECKSUM_MISMATCH ELSE MSP_OK,
              rx |-> r.rx, buf |-> buf2, pkt |-> pkt2]

\* ret = parse_V2(mdev, pkt); if (ret<0) {return ret;} else {return MSP_OK;}
parse_V1_tunnel(v2) == [v2 EXCEPT !.ret = IF v2.ret < 0 THEN v2.ret ELSE MSP_OK]

\* parse_V1 behind the JUMBO block; r is the read of the two length bytes
\* when the block was entered
parse_V1_length(r, jumbo, buf, pkt, checksum, read_retries) ==
    LET pkt2      == IF jumbo THEN [pkt EXCEPT !.payload_size = le16toh(r.data)] ELSE pkt
        checksum1 == IF jumbo THEN checksum_xor(r.data, 2, checksum) ELSE checksum
    IN  IF r.ret < 0
        THEN [ret |-> r.ret, rx |-> r.rx, buf |-> buf, pkt |-> pkt]
        ELSE IF pkt2.function = 255
        THEN parse_V1_tunnel(parse_V2(r.rx, buf, pkt2, read_retries))
        ELSE IF too_big(pkt2.payload_size)
        THEN [ret |-> MSP_OUT_OF_MEMORY, rx |-> r.rx, buf |-> buf, pkt |-> pkt2]
        ELSE parse_V1_payload(msplink_read(r.rx, pkt2.payload_size + 1, read_retries),
                              buf, pkt2, checksum1)

\* parse_V1 behind the read of size and command
parse_V1_header(r, buf, pkt, read_retries) ==
    LET pkt1  == [pkt EXCEPT !.payload_size = r.data[1], !.function = r.data[2]]
        jumbo == pkt1.payload_size = 255
    IN  IF r.ret < 0
        THEN [ret |-> r.ret, rx |-> r.rx, buf |-> buf, pkt |-> pkt]
        ELSE parse_V1_length(IF jumbo THEN msplink_read(r.rx, 2, read_retries)
                             ELSE [ret |-> MSP_OK, data |-> <<>>, rx |-> r.rx],
                             jumbo, buf, pkt1, checksum_xor(r.data, 2, 0), read_retries)

parse_V1(rx, buf, pkt, read_retries) ==
    parse_V1_header(msplink_read(rx, 2, read_retries), buf, [pkt EXCEPT !.flag = 0],
                    read_retries)

\* parse_packet behind the switch on the version
parse_packet_direction(p) ==
    IF p.ret < 0 THEN p
    ELSE IF p.pkt.direction = MSP_DIR_ERROR THEN [p EXCEPT !.ret = MSP_RX_CLIENT_NACK]
    ELSE [p EXCEPT !.ret = MSP_OK]

\* parse_packet behind the read of version and direction
parse_packet_head(r, buf, response, read_retries) ==
    LET pkt1 == [response EXCEPT !.version = r.data[1], !.direction = r.data[2]]
    IN  IF r.ret < 0
        THEN [ret |-> r.ret, rx |-> r.rx, buf |-> buf, pkt |-> response]
        ELSE IF pkt1.version = MSP_V1
        THEN parse_packet_direction(parse_V1(r.rx, buf, pkt1, read_retries))
        ELSE IF pkt1.version = MSP_V2
        THEN parse_packet_direction(parse_V2(r.rx, buf, pkt1, read_retries))
        ELSE [ret |-> MSP_LIB_INTERNAL_ERROR, rx |-> r.rx, buf |-> buf, pkt |-> pkt1]

\* parse_packet behind get_sync
parse_packet_sync(s, buf, response, read_retries) ==
    IF s.ret < 0
    THEN [ret |-> s.ret, rx |-> s.rx, buf |-> buf, pkt |-> response]
    ELSE parse_packet_head(msplink_read(s.rx, 2, read_retries), buf, response,
                           read_retries)

\* parse_packet behind msplink_waituntilsent
parse_packet_drained(d, buf, response, read_retries) ==
    IF d.ret < 0
    THEN [ret |-> d.ret, rx |-> d.rx, buf |-> buf, pkt |-> response]
    ELSE parse_packet_sync(get_sync(d.rx, read_retries), buf, response, read_retries)

parse_packet(rx, buf, response, read_retries) ==
    parse_packet_drained(msplink_waituntilsent(rx), buf, response, read_retries)

(***************************************************************************)
(* msplink.c: packResponse builds the MspPacketType handed to Python       *)
(***************************************************************************)
packResponse(rx_pkt, buf) ==
    [version   |-> rx_pkt.version,
     direction |-> rx_pkt.direction,
     flag      |-> IF rx_pkt.version = MSP_V2 THEN rx_pkt.flag ELSE "None",
     command   |-> rx_pkt.function,
     payload   |-> [i \in 1..rx_pkt.payload_size |-> BufAt(buf, i)],
     checksum  |-> rx_pkt.checksum]

(***************************************************************************)
(* Reference definitions used by the properties: the checksums computed    *)
(* from their mathematical definitions, not by the code's loops.           *)
(***************************************************************************)
BitOf(v, b) == (v \div (2 ^ b)) % 2

\* XOR of all bytes of S: bit b is the parity of the bytes that have bit b set
XorAll(S) ==
    LET Parity(b) == Cardinality({i \in DOMAIN S : BitOf(S[i], b) = 1}) % 2
    IN  Parity(0) + (2 * Parity(1)) + (4 * Parity(2)) + (8 * Parity(3))
        + (16 * Parity(4)) + (32 * Parity(5)) + (64 * Parity(6)) + (128 * Parity(7))

\* CRC8/DVB-S2 by polynomial division, generator x^8+x^7+x^6+x^4+x^2+1 (0xD5)
RECURSIVE PolyShift(_, _)
PolyShift(c, n) ==
    IF n = 0 THEN c
    ELSE PolyShift(IF c >= 128 THEN Xor8((2 * c) % 256, 213) ELSE 2 * c, n - 1)

RECURSIVE PolyCrc(_, _, _, _)
PolyCrc(S, lo, hi, c) ==
    IF lo > hi THEN c
    ELSE IF lo = hi THEN PolyShift(Xor8(c, S[lo]), 8)
    ELSE LET mid  == (lo + hi) \div 2
             left == PolyCrc(S, lo, mid, c)
         IN  IF left \in 0..255 THEN PolyCrc(S, mid + 1, hi, left) ELSE left

Crc8DvbS2(S) == PolyCrc(S, 1, Len(S), 0)

(***************************************************************************)
(* Bounds of the model                                                     *)
(***************************************************************************)
MaxSeed == 1
MaxRetries == 3
MaxWriteFail == 2
NumThreads == 2
MaxFd == 3
MaxCalls == 3

(***************************************************************************)
(* State                                                                   *)
(***************************************************************************)
VARIABLES
    stackLayout,    \* what the build placed behind send_V2's buf[7]
                    \* ("unseen" until send_V2 has run)
    mspDevice,      \* the global mspdev_t (without its mutex)
    mspResponse,    \* the global mspPacket_t filled by parse_packet
    instanceLock,   \* mspDevice.instanceLock: the set of threads holding it
    gil,            \* the interpreter lock: the set of threads holding it
    pc,             \* position of every thread
    frame,          \* locals of the call a thread is executing
    last,           \* the call that returned in the step just taken, if any
    osfds,          \* descriptors open in the process
    alive,          \* FALSE once the process has crashed
    calls,          \* number of calls made so far
    inq,            \* bytes waiting in the input queue of the serial line
    cPhase,         \* encoder/decoder bench: "input", "sent", "decoded"
    cIn,            \* the request handed to the encoder
    cRetries,       \* mdev->read_retries used by the decoder
    cSent,          \* result of the encoder: [ret, tx]
    cRes,           \* result of parse_packet: [ret, rx, buf, pkt]
    cWire           \* decoder bench: description of the bytes on the line

devVars == <<mspDevice, mspResponse, instanceLock, gil, pc, frame, last, osfds, alive,
             calls, inq>>
codecVars == <<cPhase, cIn, cRetries, cSent, cRes, cWire>>
vars == <<stackLayout, devVars, codecVars, inq>>

(***************************************************************************)
(* msplink.c: the state set up by PyInit_msplink                           *)
(***************************************************************************)
Threads == 1..NumThreads

InitialDevice ==
    [device_open |-> 0, fd |-> 0, devname |-> "NULL",
     read_retries |-> MSP_RETRY_DEFAULT, mspversion |-> 1, errornum |-> "0",
     buf |-> <<>>]

\* stale: whether bytes were queued on the line when the request began
IdleFrame == [op |-> "none", args |-> <<>>, retval |-> MSP_OK, unlocks |-> 0,
              trace |-> <<>>, tx |-> NoTx, rx |-> NoRx, warning |-> FALSE,
              stale |-> FALSE]

NoCall == [thread |-> 0, op |-> "none", args |-> <<>>, exc |-> "none",
           value |-> <<>>, unlocks |-> 0, trace |-> <<>>, warning |-> FALSE]

\* descriptors 0, 1, 2 are the standard streams of the process
DeviceIdle ==
    /\ mspDevice = InitialDevice
    /\ mspResponse = NoPacket
    /\ instanceLock = {}
    /\ gil = {}
    /\ pc = [t \in Threads |-> "idle"]
    /\ frame = [t \in Threads |-> IdleFrame]
    /\ last = NoCall
    /\ osfds = {0, 1, 2}
    /\ alive = TRUE
    /\ calls = 0
    /\ inq = <<>>

(***************************************************************************)
(* Encoder / decoder bench: a request is encoded by send_V1 or send_V2     *)
(* and the bytes the OS accepted are looped back into parse_packet.        *)
(***************************************************************************)
PayloadLens == {0, 1, 8, 254, 255, 256, 300, 1023}
V1Commands == {0, 1, 108, 200, 255}
V2Commands == {0, 1, 255, 8000, 65535}
Flags == {0, 10, 255}

Payload(len, seed) == [i \in 1..len |-> (seed + (37 * i)) % 256]

WriteFaults ==
    {[failAt |-> 0, failKind |-> "errno", accept |-> 0]}
    \cup {[failAt |-> n, failKind |-> k, accept |-> 0] :
             n \in 1..MaxWriteFail, k \in {"errno", "short"}}

\* write faults are exercised on a few requests only
CodecRequests ==
    {r \in [ver : {1}, flag : {0}, cmd : V1Commands, len : PayloadLens,
            seed : 0..MaxSeed, fault : WriteFaults] :
        r.fault.failAt = 0 \/ r.len \in {1, 300}}
    \cup
    {r \in [ver : {2}, flag : Flags, cmd : V2Commands, len : PayloadLens,
            seed : 0..MaxSeed, fault : WriteFaults] :
        r.fault.failAt = 0 \/ (r.len = 1 /\ r.flag = 0)}

NoResult == [ret |-> MSP_OK, rx |-> NoRx, buf |-> <<>>, pkt |-> NoPacket]

\* decoder bench: nothing on the line
NoWire == [ver |-> 1, dir |-> MSP_DIR_TOHOST, flag |-> 0, cmd |-> 0, size |-> 0,
           sum |-> "good", junk |-> 0, cut |-> 0, failAt |-> 0, drainFails |-> FALSE]
NoSend == [ret |-> MSP_OK, tx |-> NoTx]

CodecIdle ==
    /\ cPhase = "off"
    /\ cIn = [ver |-> 1, flag |-> 0, cmd |-> 0, len |-> 0, seed |-> 0,
              fault |-> [failAt |-> 0, failKind |-> "errno", accept |-> 0]]
    /\ cRetries = MSP_RETRY_DEFAULT
    /\ cSent = NoSend
    /\ cRes = NoResult
    /\ cWire = NoWire

InitCodec ==
    /\ stackLayout \in StackLayouts
    /\ DeviceIdle
    /\ cPhase = "input"
    /\ cIn \in CodecRequests
    /\ cRetries \in 1..MaxRetries
    /\ cSent = NoSend
    /\ cRes = NoResult
    /\ cWire = NoWire

TxFor(fault) == [NoTx EXCEPT !.failAt = fault.failAt, !.failKind = fault.failKind,
                             !.accept = fault.accept]

EncodeV1 ==
    /\ cPhase = "input" /\ cIn.ver = 1
    /\ cSent' = send_V1(TxFor(cIn.fault), cIn.cmd, Payload(cIn.len, cIn.seed), cIn.len)
    /\ cPhase' = "sent"
    /\ UNCHANGED <<stackLayout, devVars, cIn, cRetries, cRes, cWire>>

EncodeV2 ==
    /\ cPhase = "input" /\ cIn.ver = 2
    /\ cSent' = send_V2(TxFor(cIn.fault), cIn.flag, cIn.cmd,
                        Payload(cIn.len, cIn.seed), cIn.len, stackLayout)
    /\ cPhase' = "sent"
    /\ UNCHANGED <<stackLayout, devVars, cIn, cRetries, cRes, cWire>>

Decode ==
    /\ cPhase = "sent" /\ cSent.ret = MSP_OK
    /\ cRes' = parse_packet(RxOf(cSent.tx.out), <<>>, NoPacket, cRetries)
    /\ cPhase' = "decoded"
    /\ UNCHANGED <<stackLayout, devVars, cIn, cRetries, cSent, cWire>>

NextCodec == EncodeV1 \/ EncodeV2 \/ Decode

SpecCodec == InitCodec /\ [][NextCodec]_vars

(***************************************************************************)
(* Decoder bench: bytes described by a record w are put on the line and    *)
(* parse_packet runs over them.                                            *)
(*   ver, dir, flag, cmd   the frame's version (1, 2), direction byte      *)
(*                         ('<', '>', '!', or '?' which is none of the     *)
(*                         three), V2 flag and command                     *)
(*   size   the payload size the header declares; a V1 frame declares a    *)
(*          size above 254 in JUMBO form                                   *)
(*   sum    "good": the checksum byte is the frame's checksum, "bad": not  *)
(*   junk   number of bytes other than '$' in front of the frame           *)
(*   cut    number of bytes missing at the end of the frame                *)
(*   failAt, drainFails    what the OS does (see NoRx)                     *)
(***************************************************************************)
\* a frame that declares one byte more than the receive buffer takes carries
\* them all; one that declares still more is followed by a few bytes only
WirePayloadLen(w) == IF w.size > READ_BUFFER_SIZE THEN 3 ELSE w.size

WirePayload(w) == Payload(WirePayloadLen(w), w.cmd)

\* the bytes between the direction byte and the payload
WireHeader(w) ==
    IF w.ver = 2
    THEN <<w.flag, w.cmd % 256, w.cmd \div 256, w.size % 256, w.size \div 256>>
    ELSE IF w.size > 254
    THEN <<255, w.cmd, w.size % 256, w.size \div 256>>
    ELSE <<w.size, w.cmd>>

\* the checksum of the frame as it is on the line
WireChecksum(w) ==
    IF w.ver = 2 THEN Crc8DvbS2(WireHeader(w) \o WirePayload(w))
    ELSE XorAll(WireHeader(w) \o WirePayload(w))

WireSum(w) == IF w.sum = "good" THEN WireChecksum(w) ELSE (WireChecksum(w) + 1) % 256

WireFrame(w) ==
    <<SYNC_BYTE, IF w.ver = 2 THEN MSP_V2 ELSE MSP_V1, w.dir>>
        \o WireHeader(w) \o WirePayload(w) \o <<WireSum(w)>>

\* bytes in front of the frame, none of them '$'
Junk(k) == [i \in 1..k |-> 1 + (i % 7)]

Cut(bytes, n) == SubSeq(bytes, 1, IF n > Len(bytes) THEN 0 ELSE Len(bytes) - n)

WireBytes(w) == Junk(w.junk) \o Cut(WireFrame(w), w.cut)

WireRx(w) == [RxOf(WireBytes(w)) EXCEPT !.failAt = w.failAt, !.drainFails = w.drainFails]

\* '?': a second header byte that is no direction
OtherDirection == 63

\* big frames, cut frames and OS faults are exercised on a few inputs only
WireInputs ==
    {w \in [ver : {1, 2},
            dir : {MSP_DIR_TOCLIENT, MSP_DIR_TOHOST, MSP_DIR_ERROR, OtherDirection},
            flag : {0, 10}, cmd : {108, 8000}, size : {0, 2, 255, 1023, 1024, 65535},
            sum : {"good", "bad"}, junk : {0, 1, MAX_SYNC_SEARCH_BYTES - 1,
                                           MAX_SYNC_SEARCH_BYTES},
            cut : {0, 1, 2 * READ_BUFFER_SIZE}, failAt : {0, 1, 4},
            drainFails : BOOLEAN] :
        /\ w.ver = 1 => (w.cmd < 255 /\ w.flag = 0)
        /\ w.ver = 2 => (w.size # 255 /\ (w.flag = 10 <=> w.cmd = 8000))
        /\ w.size > 2 => (w.dir = MSP_DIR_TOHOST /\ w.junk = 0)
        /\ w.dir = OtherDirection => (w.junk = 0 /\ w.cut = 0)
        /\ (w.failAt # 0 \/ w.drainFails) =>
              (w.size = 2 /\ w.junk = 0 /\ w.cut = 0 /\ w.sum = "good"
               /\ ~(w.failAt # 0 /\ w.drainFails))}

InitWire ==
    /\ stackLayout = "unseen"
    /\ DeviceIdle
    /\ cPhase = "wire"
    /\ cIn = [ver |-> 1, flag |-> 0, cmd |-> 0, len |-> 0, seed |-> 0,
              fault |-> [failAt |-> 0, failKind |-> "errno", accept |-> 0]]
    /\ cRetries \in 1..MaxRetries
    /\ cSent = NoSend
    /\ cRes = NoResult
    /\ cWire \in WireInputs

DecodeWire ==
    /\ cPhase = "wire"
    /\ cRes' = parse_packet(WireRx(cWire), <<>>, NoPacket, cRetries)
    /\ cPhase' = "parsed"
    /\ UNCHANGED <<stackLayout, devVars, cIn, cRetries, cSent, cWire>>

NextWire == DecodeWire

SpecWire == InitWire /\ [][NextWire]_vars

(***************************************************************************)
(* Tunnel bench: a V2 frame wrapped in a V1 frame with command 255 is put  *)
(* on the line and parse_packet runs over it.                              *)
(*   dir, flag, cmd, len   direction byte of the wrapper; flag, command    *)
(*                         and payload size of the inner V2 header         *)
(*   crc    "good": the inner CRC byte is the CRC8 of the inner header and *)
(*          payload, "bad": not                                            *)
(*   wrap   "plain": the wrapper's size byte is the length of the inner    *)
(*          bytes; "jumbo": size byte 255 and that length in two bytes;    *)
(*          "jumbo_other": size byte 255 and two bytes of another value    *)
(*   v1sum  the wrapper's trailing XOR checksum: "good", "bad" or "none"   *)
(*          (not on the line)                                              *)
(***************************************************************************)
InnerHeader(w) ==
    <<w.flag, w.cmd % 256, w.cmd \div 256, w.len % 256, w.len \div 256>>

InnerCrc(w) ==
    LET crc == Crc8DvbS2(InnerHeader(w) \o Payload(w.len, w.cmd))
    IN  IF w.crc = "good" THEN crc ELSE (crc + 1) % 256

\* what the V1 wrapper carries as its payload
InnerBytes(w) == InnerHeader(w) \o Payload(w.len, w.cmd) \o <<InnerCrc(w)>>

\* size byte and command byte 255 of the wrapper, and the JUMBO length
WrapperHeader(w) ==
    LET n == Len(InnerBytes(w))
    IN  CASE w.wrap = "plain"       -> <<n, 255>>
          [] w.wrap = "jumbo"       -> <<255, 255, n % 256, n \div 256>>
          [] w.wrap = "jumbo_other" -> <<255, 255, 1, 0>>

WrapperSum(w) ==
    LET sum == XorAll(WrapperHeader(w) \o InnerBytes(w))
    IN  CASE w.v1sum = "good" -> <<sum>>
          [] w.v1sum = "bad"  -> <<(sum + 1) % 256>>
          [] w.v1sum = "none" -> <<>>

TunnelFrame(w) ==
    <<SYNC_BYTE, MSP_V1, w.dir>> \o WrapperHeader(w) \o InnerBytes(w) \o WrapperSum(w)

TunnelInputs ==
    {w \in [dir : {MSP_DIR_TOHOST, MSP_DIR_ERROR}, flag : {0, 10}, cmd : {108, 8000},
            len : {0, 2, 250}, crc : {"good", "bad"},
            wrap : {"plain", "jumbo", "jumbo_other"},
            v1sum : {"good", "bad", "none"}] :
        /\ w.flag = 10 <=> w.cmd = 8000
        /\ w.wrap = "plain" => w.len + 6 < 255}

InitTunnel ==
    /\ stackLayout = "unseen"
    /\ DeviceIdle
    /\ cPhase = "tunnel"
    /\ cIn = [ver |-> 1, flag |-> 0, cmd |-> 0, len |-> 0, seed |-> 0,
              fault |-> [failAt |-> 0, failKind |-> "errno", accept |-> 0]]
    /\ cRetries \in 1..MaxRetries
    /\ cSent = NoSend
    /\ cRes = NoResult
    /\ cWire \in TunnelInputs

DecodeTunnel ==
    /\ cPhase = "tunnel"
    /\ cRes' = parse_packet(RxOf(TunnelFrame(cWire)), <<>>, NoPacket, cRetries)
    /\ cPhase' = "parsed"
    /\ UNCHANGED <<stackLayout, devVars, cIn, cRetries, cSent, cWire>>

NextTunnel == DecodeTunnel

SpecTunnel == InitTunnel /\ [][NextTunnel]_vars

(***************************************************************************)
(* Read bench: msplink_read is asked for len bytes of a stream that        *)
(* arrives in pieces.                                                      *)
(*   len     the number of bytes asked for                                 *)
(*   first   the number of bytes already queued                            *)
(*   chunks  the sizes of the pieces that arrive later, one per read       *)
(*           timeout; a piece of size 0 is a timeout without data          *)
(*   failAt  ordinal of the read() call that returns -1 (0: none)          *)
(***************************************************************************)
MaxReadLen == 3
MaxChunks == 3

ChunkSizes == {0, 1, MaxReadLen}

RECURSIVE SumTo(_, _)
SumTo(sizes, j) == IF j = 0 THEN 0 ELSE sizes[j] + SumTo(sizes, j - 1)

\* the stream is 1, 2, 3, ...: byte number i has the value i
Segment(from, size) == [i \in 1..size |-> (from + i) % 256]

ReadRx(w) ==
    [NoRx EXCEPT !.q = Segment(0, w.first),
                 !.pend = [j \in 1..Len(w.chunks) |->
                              Segment(w.first + SumTo(w.chunks, j - 1), w.chunks[j])],
                 !.failAt = w.failAt]

ReadInputs ==
    [len : 0..MaxReadLen, first : ChunkSizes,
     chunks : UNION {[1..k -> ChunkSizes] : k \in 0..MaxChunks},
     failAt : 0..MaxRetries]

InitRead ==
    /\ stackLayout = "unseen"
    /\ DeviceIdle
    /\ cPhase = "read"
    /\ cIn = [ver |-> 1, flag |-> 0, cmd |-> 0, len |-> 0, seed |-> 0,
              fault |-> [failAt |-> 0, failKind |-> "errno", accept |-> 0]]
    /\ cRetries \in 1..MaxRetries
    /\ cSent = NoSend
    /\ cRes = NoResult
    /\ cWire \in ReadInputs

ReadExact ==
    /\ cPhase = "read"
    /\ cRes' = msplink_read(ReadRx(cWire), cWire.len, cRetries)
    /\ cPhase' = "stored"
    /\ UNCHANGED <<stackLayout, devVars, cIn, cRetries, cSent, cWire>>

NextRead == ReadExact

SpecRead == InitRead /\ [][NextRead]_vars

(***************************************************************************)
(* Checksum bench: both checksums run over a byte sequence in one call and *)
(* in two calls, the second seeded with the result of the first.           *)
(*   seed   the seed of the (first) call                                   *)
(*   a, b   the bytes of the first and of the second call                  *)
(***************************************************************************)
MaxSumLen == 2

SumBytes == {0, 1, 128, 255}

SumSeeds == {0, 1, 170, 255}

SumInputs ==
    [seed : SumSeeds,
     a : UNION {[1..n -> SumBytes] : n \in 0..MaxSumLen},
     b : UNION {[1..n -> SumBytes] : n \in 0..MaxSumLen}]

InitSum ==
    /\ stackLayout = "unseen"
    /\ DeviceIdle
    /\ cPhase = "sum"
    /\ cIn = [ver |-> 1, flag |-> 0, cmd |-> 0, len |-> 0, seed |-> 0,
              fault |-> [failAt |-> 0, failKind |-> "errno", accept |-> 0]]
    /\ cRetries = 1
    /\ cSent = NoSend
    /\ cRes = NoResult
    /\ cWire \in SumInputs

Checksums ==
    /\ cPhase = "sum"
    /\ cRes' =
          [xor_whole   |-> checksum_xor(cWire.a \o cWire.b,
                                        Len(cWire.a) + Len(cWire.b), cWire.seed),
           xor_chained |-> checksum_xor(cWire.b, Len(cWire.b),
                               checksum_xor(cWire.a, Len(cWire.a), cWire.seed)),
           crc_whole   |-> checksum_crc8_dvb_s2(cWire.a \o cWire.b,
                               Len(cWire.a) + Len(cWire.b), cWire.seed),
           crc_chained |-> checksum_crc8_dvb_s2(cWire.b, Len(cWire.b),
                               checksum_crc8_dvb_s2(cWire.a, Len(cWire.a), cWire.seed))]
    /\ cPhase' = "summed"
    /\ UNCHANGED <<stackLayout, devVars, cIn, cRetries, cSent, cWire>>

NextSum == Checksums

SpecSum == InitSum /\ [][NextSum]_vars

(***************************************************************************)
(* serial.c: operations on the descriptor                                  *)
(***************************************************************************)
\* open() returns the lowest free descriptor
LowestFree(fds) == CHOOSE d \in 0..MaxFd : d \notin fds /\ \A e \in 0..(d - 1) : e \in fds

\* msplink_open; outcome is what the OS does: "ok", "open_fails" (open()
\* returns -1) or "attr_fails" (tcgetattr/tcsetattr fails on the new descriptor)
msplink_open(mdev, fds, outcome) ==
    IF outcome = "open_fails" \/ (0..MaxFd) \subseteq fds
    THEN [ret |-> MSP_SYSCALL_FAIL, fds |-> fds,
          mdev |-> [mdev EXCEPT !.fd = -1,
                       !.errornum = IF outcome = "open_fails" THEN "ENOENT" ELSE "EMFILE"]]
    ELSE LET d == LowestFree(fds)
         IN  IF outcome = "attr_fails"
             THEN [ret |-> MSP_SYSCALL_FAIL, fds |-> fds \cup {d},
                   mdev |-> [mdev EXCEPT !.fd = d, !.errornum = "ENOTTY"]]
             ELSE [ret |-> MSP_OK, fds |-> fds \cup {d},
                   mdev |-> [mdev EXCEPT !.fd = d]]

\* msplink_close: mdev->fd = close(mdev->fd)
msplink_close(mdev, fds) ==
    IF mdev.fd \in fds
    THEN [ret |-> MSP_OK, fds |-> fds \ {mdev.fd}, mdev |-> [mdev EXCEPT !.fd = 0]]
    ELSE [ret |-> MSP_SYSCALL_FAIL, fds |-> fds,
          mdev |-> [mdev EXCEPT !.fd = -1, !.errornum = "EBADF"]]

\* msplink_clearRxBuffer: tcflush(fd, TCIOFLUSH); ok is what the OS answers
\* on a valid descriptor
msplink_clearRxBuffer(mdev, fds, ok) ==
    IF mdev.fd \in fds /\ ok
    THEN [ret |-> MSP_OK, mdev |-> mdev]
    ELSE [ret |-> MSP_SYSCALL_FAIL,
          mdev |-> [mdev EXCEPT !.errornum = IF mdev.fd \in fds THEN "EIO" ELSE "EBADF"]]

(***************************************************************************)
(* msplink.c: exceptions                                                   *)
(***************************************************************************)
Exc(type, value) == [exc |-> type, value |-> value]
NoExc == Exc("none", <<>>)

throwError(returncode, mdev) ==
    CASE returncode = MSP_OK                -> NoExc
      [] returncode = MSP_SYSCALL_FAIL      -> Exc("OSError", mdev.errornum)
      [] returncode = MSP_TX_FAIL           -> Exc("msplink.Exception", "tx")
      [] returncode = MSP_RX_FAIL           -> Exc("msplink.NoResponse", "rx")
      [] returncode = MSP_RX_SYNC_NOT_FOUND -> Exc("msplink.NoResponse", "sync")
      [] returncode = MSP_LIB_INTERNAL_ERROR -> Exc("msplink.Exception", "bug")
      [] returncode = MSP_OUT_OF_MEMORY     -> Exc("MemoryError", "payload")
      [] OTHER                              -> Exc("msplink.Exception", "unknown")

throwPacketError(returncode, rxPkt, mdev) ==
    CASE returncode = MSP_OK -> NoExc
      [] returncode = MSP_RX_CHECKSUM_MISMATCH ->
            Exc("msplink.BadChecksum", packResponse(rxPkt, mdev.buf))
      [] returncode = MSP_RX_CLIENT_NACK ->
            Exc("msplink.NACK", packResponse(rxPkt, mdev.buf))
      [] OTHER -> throwError(returncode, mdev)

(***************************************************************************)
(* The two locks                                                           *)
(***************************************************************************)
\* a function that keeps the interpreter lock across the blocking call
Py_BEGIN_ALLOW_THREADS_kept(g, t) == g

\* Py_BEGIN_ALLOW_THREADS: the calling thread gives up the interpreter lock
Py_BEGIN_ALLOW_THREADS(g, t) == g \ {t}

\* Py_END_ALLOW_THREADS waits until no other thread holds the interpreter lock
Py_END_ALLOW_THREADS_ready(g, t) == g \subseteq {t}

\* a lock that does not wait
pthread_mutex_lock_ready_always(lock, t) == TRUE

\* pthread_mutex_lock returns only when the mutex is free
pthread_mutex_lock_ready(lock, t) == lock = {}

\* an exit path that forgets the unlock
pthread_mutex_unlock_skipped(lock, t) == lock

pthread_mutex_unlock(lock, t) == lock \ {t}

(***************************************************************************)
(* Calls made by the Python threads                                        *)
(***************************************************************************)
Ops == {"open", "close", "get", "set"}

\* a keyword argument is <<>> when the caller omits it, <<v>> when given;
\* a call gives at most one of the two optional arguments
NotAPath == "not path-like"
OpenArgs ==
    {a \in [serial_device : {"/dev/ttyACM0", NotAPath},
            read_retries : {<<>>, <<0>>, <<2>>},
            msp_version : {<<>>, <<1>>, <<2>>, <<7>>}] :
        /\ a.serial_device = NotAPath => (a.read_retries = <<>> /\ a.msp_version = <<>>)
        /\ a.read_retries = <<>> \/ a.msp_version = <<>>}

\* parse is what PyArg_ParseTupleAndKeywords makes of the arguments
GetArgs == [parse : {"ok"}, command : {108, 300}, flag : {0}]
               \cup [parse : {"bad_command"}, command : {0}, flag : {0}]

SetArgs == [parse : {"ok"}, command : {108, 300}, payload : {<<220, 5>>},
            flag : {0}, wait_for_ack : BOOLEAN]
               \cup [parse : {"bad_command", "bad_flag"}, command : {0},
                     payload : {<<>>}, flag : {0}, wait_for_ack : {TRUE}]

\* a thread picks up the interpreter lock and enters one of the four functions
Call(t, op) ==
    /\ alive /\ pc[t] = "idle" /\ gil = {}
    /\ calls < MaxCalls
    /\ calls' = calls + 1
    /\ gil' = {t}
    /\ pc' = [pc EXCEPT ![t] = "begin"]
    /\ frame' = [frame EXCEPT ![t] = [IdleFrame EXCEPT !.op = op]]
    /\ UNCHANGED <<stackLayout, mspDevice, mspResponse, instanceLock, osfds, alive, codecVars, inq>>
    /\ last' = NoCall

\* Py_BEGIN_ALLOW_THREADS in front of pthread_mutex_lock
BeginAllowThreads(t) ==
    /\ alive /\ pc[t] = "begin"
    /\ gil' = Py_BEGIN_ALLOW_THREADS(gil, t)
    /\ pc' = [pc EXCEPT ![t] = "lock"]
    /\ UNCHANGED <<stackLayout, mspDevice, mspResponse, instanceLock, frame, osfds, alive, calls, codecVars, inq>>
    /\ last' = NoCall

MutexLock(t) ==
    /\ alive /\ pc[t] = "lock"
    /\ pthread_mutex_lock_ready(instanceLock, t)
    /\ instanceLock' = instanceLock \cup {t}
    /\ pc' = [pc EXCEPT ![t] = "end"]
    /\ UNCHANGED <<stackLayout, mspDevice, mspResponse, gil, frame, osfds, alive, calls, codecVars, inq>>
    /\ last' = NoCall

\* Py_END_ALLOW_THREADS behind pthread_mutex_lock
EndAllowThreads(t) ==
    /\ alive /\ pc[t] = "end"
    /\ Py_END_ALLOW_THREADS_ready(gil, t)
    /\ gil' = {t}
    /\ pc' = [pc EXCEPT ![t] = "body"]
    /\ UNCHANGED <<stackLayout, mspDevice, mspResponse, instanceLock, frame, osfds, alive, calls, codecVars, inq>>
    /\ last' = NoCall

\* the function returns to the interpreter, which lets other threads run
Return(t, f, e) ==
    /\ last' = [thread |-> t, op |-> f.op, args |-> f.args, exc |-> e.exc,
                value |-> e.value, unlocks |-> f.unlocks, trace |-> f.trace,
                warning |-> f.warning]
    /\ frame' = [frame EXCEPT ![t] = IdleFrame]
    /\ pc' = [pc EXCEPT ![t] = "idle"]
    /\ gil' = gil \ {t}

\* goto release_mutex_handler (and the unlock in front of a normal return)
release_mutex_handler(t, f, e) ==
    /\ instanceLock' = pthread_mutex_unlock(instanceLock, t)
    /\ Return(t, [f EXCEPT !.unlocks = @ + 1], e)

\* a section of a function that ends in Py_BEGIN_ALLOW_THREADS before an I/O call
GoIO(t, f, where) ==
    /\ frame' = [frame EXCEPT ![t] = f]
    /\ pc' = [pc EXCEPT ![t] = where]
    /\ gil' = Py_BEGIN_ALLOW_THREADS(gil, t)
    /\ last' = NoCall
    /\ UNCHANGED instanceLock

(***************************************************************************)
(* pyMsplinkOpen                                                           *)
(***************************************************************************)
\* PyArg_ParseTupleAndKeywords stores the optional arguments that are given
\* straight into mspDevice and leaves the others as they are
open_parse(mdev, a) ==
    [mdev EXCEPT !.read_retries = IF a.read_retries = <<>> THEN @ ELSE a.read_retries[1],
                 !.mspversion = IF a.msp_version = <<>> THEN @ ELSE a.msp_version[1]]

\* a retry check that lets zero through
open_check_nonnegative(mdev) ==
    IF mdev.mspversion # 1 /\ mdev.mspversion # 2 THEN "msp_version"
    ELSE IF mdev.read_retries < 0 THEN "read_retries"
    ELSE "ok"

\* the two range checks on the stored arguments
open_check(mdev) ==
    IF mdev.mspversion # 1 /\ mdev.mspversion # 2 THEN "msp_version"
    ELSE IF mdev.read_retries <= 0 THEN "read_retries"
    ELSE "ok"

\* a test that never finds the device open
already_open_never(mdev) == FALSE

\* if (mspDevice.device_open) at the head of pyMsplinkOpen
already_open(mdev) == mdev.device_open # 0

\* from the device_open test to the Py_BEGIN_ALLOW_THREADS before msplink_open
OpenBody(t) ==
    /\ alive /\ pc[t] = "body" /\ frame[t].op = "open"
    /\ \E a \in OpenArgs, mallocOk \in BOOLEAN :
        LET f    == [frame[t] EXCEPT !.args = a]
            dev1 == open_parse(mspDevice, a)
            dev2 == [dev1 EXCEPT !.devname = IF mallocOk THEN a.serial_device ELSE "NULL"]
        IN  IF already_open(mspDevice)
            THEN /\ release_mutex_handler(t, f, Exc("msplink.Exception", "already open"))
                 /\ UNCHANGED mspDevice
            ELSE IF a.serial_device = NotAPath
            THEN /\ release_mutex_handler(t, f, Exc("TypeError", "serial_device"))
                 /\ UNCHANGED mspDevice
            ELSE IF ~mallocOk
            THEN /\ release_mutex_handler(t, f, Exc("MemoryError", "devname"))
                 /\ mspDevice' = dev2
            ELSE IF open_check(dev2) # "ok"
            THEN /\ release_mutex_handler(t, f, Exc("ValueError", open_check(dev2)))
                 /\ mspDevice' = dev2
            ELSE /\ GoIO(t, f, "io_open")
                 /\ mspDevice' = dev2
    /\ UNCHANGED <<stackLayout, mspResponse, osfds, alive, calls, codecVars, inq>>

\* msplink_open, executed without the interpreter lock
OpenIO(t) ==
    /\ alive /\ pc[t] = "io_open"
    /\ \E outcome \in {"ok", "open_fails", "attr_fails"} :
        LET r == msplink_open(mspDevice, osfds, outcome)
        IN  /\ mspDevice' = r.mdev
            /\ osfds' = r.fds
            /\ frame' = [frame EXCEPT ![t].retval = r.ret,
                                      ![t].trace = Append(@, "open")]
    /\ pc' = [pc EXCEPT ![t] = "after_open"]
    /\ UNCHANGED <<stackLayout, mspResponse, instanceLock, gil, alive, calls, codecVars, inq>>
    /\ last' = NoCall

\* Py_END_ALLOW_THREADS after msplink_open, to the end of the function
OpenFinish(t) ==
    /\ alive /\ pc[t] = "after_open"
    /\ Py_END_ALLOW_THREADS_ready(gil, t)
    /\ IF frame[t].retval < 0
       THEN /\ release_mutex_handler(t, frame[t], throwError(frame[t].retval, mspDevice))
            /\ UNCHANGED mspDevice
       ELSE /\ mspDevice' = [mspDevice EXCEPT !.device_open = 1]
            /\ release_mutex_handler(t, frame[t], NoExc)
    /\ UNCHANGED <<stackLayout, mspResponse, osfds, alive, calls, codecVars, inq>>

(***************************************************************************)
(* pyMsplinkClose                                                          *)
(***************************************************************************)
CloseBody(t) ==
    /\ alive /\ pc[t] = "body" /\ frame[t].op = "close"
    /\ LET dev1 == [mspDevice EXCEPT !.devname = "NULL", !.device_open = 0]
           r    == msplink_close(dev1, osfds)
           f    == [frame[t] EXCEPT !.retval = r.ret, !.trace = Append(@, "close"),
                                    !.warning = (mspDevice.device_open = 0)]
       IN  /\ mspDevice' = r.mdev
           /\ osfds' = r.fds
           /\ release_mutex_handler(t, f, throwError(r.ret, r.mdev))
    /\ UNCHANGED <<stackLayout, mspResponse, alive, calls, codecVars, inq>>

(***************************************************************************)
(* pyMsplinkGet and pyMsplinkSet                                           *)
(***************************************************************************)
\* PyBuffer_Release(&payload) on a Py_buffer that was never filled reads an
\* uninitialised obj pointer: it returns at once when that happens to be
\* NULL and crashes the process otherwise
BufferReleaseOutcomes(a) ==
    IF a.parse = "bad_command" THEN {"returns", "crashes"} ELSE {"returns"}

\* a test that lets every request through
not_open_never(mdev) == FALSE

\* if (!mspDevice.device_open) at the head of pyMsplinkGet and pyMsplinkSet
not_open(mdev) == mdev.device_open = 0

\* from the device_open test to the Py_BEGIN_ALLOW_THREADS before the flush
GetBody(t) ==
    /\ alive /\ pc[t] = "body" /\ frame[t].op = "get"
    /\ \E a \in GetArgs :
        LET f == [frame[t] EXCEPT !.args = a, !.stale = (inq # <<>>)]
        IN  IF not_open(mspDevice)
            THEN release_mutex_handler(t, f, Exc("msplink.Exception", "not open"))
            ELSE IF a.parse # "ok"
            THEN release_mutex_handler(t, f, Exc("TypeError", "command"))
            ELSE GoIO(t, f, "io_flush")
    /\ UNCHANGED <<stackLayout, mspDevice, mspResponse, osfds, alive, calls, codecVars, inq>>

SetBody(t) ==
    /\ pc[t] = "body" /\ frame[t].op = "set" /\ alive
    /\ \E a \in SetArgs :
        LET f == [frame[t] EXCEPT !.args = a, !.stale = (inq # <<>>)]
        IN  IF not_open(mspDevice)
            THEN /\ release_mutex_handler(t, f, Exc("msplink.Exception", "not open"))
                 /\ UNCHANGED alive
            ELSE IF a.parse # "ok"
            THEN \E o \in BufferReleaseOutcomes(a) :
                    IF o = "crashes"
                    THEN /\ alive' = FALSE
                         /\ last' = NoCall
                         /\ UNCHANGED <<instanceLock, gil, pc, frame>>
                    ELSE /\ release_mutex_handler(t, f, Exc("TypeError", a.parse))
                         /\ UNCHANGED alive
            ELSE /\ GoIO(t, f, "io_flush")
                 /\ UNCHANGED alive
    /\ UNCHANGED <<stackLayout, mspDevice, mspResponse, osfds, calls, codecVars, inq>>

\* a flush that leaves the input queue as it is
tcflush_kept(q) == q

\* a successful tcflush(fd, TCIOFLUSH) discards what is queued for reading
tcflush(q) == <<>>

\* msplink_clearRxBuffer, executed without the interpreter lock
Flush(t) ==
    /\ alive /\ pc[t] = "io_flush"
    /\ \E ok \in BOOLEAN :
        LET r == msplink_clearRxBuffer(mspDevice, osfds, ok)
        IN  /\ mspDevice' = r.mdev
            /\ inq' = IF r.ret = MSP_OK THEN tcflush(inq) ELSE inq
            /\ frame' = [frame EXCEPT ![t].retval = r.ret,
                                      ![t].trace = Append(@, "flush")]
    /\ pc' = [pc EXCEPT ![t] = "after_flush"]
    /\ UNCHANGED <<stackLayout, mspResponse, instanceLock, gil, osfds, alive, calls, codecVars>>
    /\ last' = NoCall

\* from the Py_END_ALLOW_THREADS after the flush, through the switch on
\* mspversion, to the Py_BEGIN_ALLOW_THREADS before send_V1 / send_V2
AfterFlush(t) ==
    /\ alive /\ pc[t] = "after_flush"
    /\ Py_END_ALLOW_THREADS_ready(gil, t)
    /\ LET f == frame[t]
       IN  IF f.retval < 0
           THEN release_mutex_handler(t, f, throwError(f.retval, mspDevice))
           ELSE IF mspDevice.mspversion = 1
           THEN IF f.args.command > 255
                THEN release_mutex_handler(t, f, Exc("ValueError", "command"))
                ELSE GoIO(t, f, "io_send")
           ELSE IF mspDevice.mspversion = 2
           THEN GoIO(t, f, "io_send")
           ELSE release_mutex_handler(t, f, Exc("msplink.Exception", "bug"))
    /\ UNCHANGED <<stackLayout, mspDevice, mspResponse, osfds, alive, calls, codecVars, inq>>

\* get sends an empty payload; set passes payload.len as a uint16_t
RequestPayload(f) == IF f.op = "set" THEN f.args.payload ELSE <<>>

DeviceWriteFaults == {w \in WriteFaults : w.failAt <= 1}

\* the build has one stack layout; it shows when send_V2 first runs
LayoutsSeen(layout, mspversion) ==
    IF mspversion = 1 THEN {layout}
    ELSE IF layout = "unseen" THEN StackLayouts
    ELSE {layout}

\* send_V1 / send_V2, executed without the interpreter lock
Send(t) ==
    /\ alive /\ pc[t] = "io_send"
    /\ \E fault \in DeviceWriteFaults,
          layout \in LayoutsSeen(stackLayout, mspDevice.mspversion) :
        LET f   == frame[t]
            pl  == RequestPayload(f)
            len == Len(pl) % 65536
            r   == IF mspDevice.mspversion = 1
                   THEN send_V1(TxFor(fault), f.args.command % 256, pl, len)
                   ELSE send_V2(TxFor(fault), f.args.flag, f.args.command, pl, len,
                                layout)
        IN  /\ frame' = [frame EXCEPT ![t].retval = r.ret, ![t].tx = r.tx,
                                      ![t].trace = Append(@, "send")]
            /\ mspDevice' = [mspDevice EXCEPT !.errornum =
                                IF r.ret = MSP_SYSCALL_FAIL THEN "EIO" ELSE @]
            /\ stackLayout' = layout
    /\ pc' = [pc EXCEPT ![t] = "after_send"]
    /\ UNCHANGED <<mspResponse, instanceLock, gil, osfds, alive, calls, codecVars, inq>>
    /\ last' = NoCall

(***************************************************************************)
(* The responder: what arrives on the line after a request                 *)
(***************************************************************************)
FrameV1(direction, cmd, payload) ==
    <<SYNC_BYTE, MSP_V1, direction, Len(payload), cmd>> \o payload
        \o <<XorAll(<<Len(payload), cmd>> \o payload)>>

FrameV2(direction, flag, cmd, payload) ==
    LET head == <<flag, cmd % 256, cmd \div 256, Len(payload) % 256, Len(payload) \div 256>>
    IN  <<SYNC_BYTE, MSP_V2, direction>> \o head \o payload
            \o <<Crc8DvbS2(head \o payload)>>

Corrupt(bytes) == [bytes EXCEPT ![Len(bytes)] = (@ + 1) % 256]

Responses(cmd) ==
    {<<>>,
     FrameV1(MSP_DIR_TOHOST, cmd % 256, <<1, 2>>),
     FrameV1(MSP_DIR_ERROR, cmd % 256, <<>>),
     Corrupt(FrameV1(MSP_DIR_TOHOST, cmd % 256, <<3>>)),
     FrameV2(MSP_DIR_TOHOST, 0, cmd, <<7>>)}

LineFaults ==
    {[failAt |-> 0, drainFails |-> FALSE], [failAt |-> 0, drainFails |-> TRUE],
     [failAt |-> 2, drainFails |-> FALSE]}

\* an exchange is an answer and what the line does to its reads; the faults
\* are met by the well-formed answer
Exchanges(cmd) ==
    {e \in [bytes : Responses(cmd), fault : LineFaults] :
        (e.fault.failAt # 0 \/ e.fault.drainFails)
            => e.bytes = FrameV1(MSP_DIR_TOHOST, cmd % 256, <<1, 2>>)}

\* what the responder sends back to a set that does not wait for it
Unawaited(cmd) == FrameV1(MSP_DIR_TOHOST, cmd % 256, <<>>)

\* a set that waits for the answer whatever it was asked
wait_for_ack_always(a) == TRUE

\* if (wait_for_ack) behind the send in pyMsplinkSet
wait_for_ack(a) == a.wait_for_ack

\* from the Py_END_ALLOW_THREADS after the send to the Py_BEGIN_ALLOW_THREADS
\* before parse_packet, or to the return of a set that does not wait; the
\* answer to such a set is left on the line
AfterSend(t) ==
    /\ alive /\ pc[t] = "after_send"
    /\ Py_END_ALLOW_THREADS_ready(gil, t)
    /\ LET f == frame[t]
       IN  IF f.retval < 0
           THEN /\ release_mutex_handler(t, f, throwError(f.retval, mspDevice))
                /\ UNCHANGED inq
           ELSE IF f.op = "set" /\ ~wait_for_ack(f.args)
           THEN /\ release_mutex_handler(t, f, NoExc)
                /\ inq' = inq \o Unawaited(f.args.command)
           ELSE /\ GoIO(t, f, "io_parse")
                /\ UNCHANGED inq
    /\ UNCHANGED <<stackLayout, mspDevice, mspResponse, osfds, alive, calls, codecVars>>

\* parse_packet, executed without the interpreter lock
Parse(t) ==
    /\ alive /\ pc[t] = "io_parse"
    /\ \E e \in Exchanges(frame[t].args.command) :
        LET bytes == e.bytes
            fault == e.fault
            rx == [RxOf(inq \o bytes) EXCEPT !.failAt = fault.failAt,
                                             !.drainFails = fault.drainFails]
            r  == parse_packet(rx, mspDevice.buf, mspResponse, mspDevice.read_retries)
        IN  /\ mspResponse' = r.pkt
            /\ inq' = r.rx.q
            /\ mspDevice' = [mspDevice EXCEPT !.buf = r.buf,
                                !.errornum = IF r.ret = MSP_SYSCALL_FAIL THEN "EIO" ELSE @]
            /\ frame' = [frame EXCEPT ![t].retval = r.ret, ![t].rx = r.rx,
                                      ![t].trace = Append(@, "parse")]
    /\ pc' = [pc EXCEPT ![t] = "after_parse"]
    /\ UNCHANGED <<stackLayout, instanceLock, gil, osfds, alive, calls, codecVars>>
    /\ last' = NoCall

\* from the Py_END_ALLOW_THREADS after parse_packet to the unlock
AfterParse(t) ==
    /\ alive /\ pc[t] = "after_parse"
    /\ Py_END_ALLOW_THREADS_ready(gil, t)
    /\ LET f == frame[t]
       IN  IF f.retval < 0
           THEN release_mutex_handler(t, f, throwPacketError(f.retval, mspResponse, mspDevice))
           ELSE /\ instanceLock' = pthread_mutex_unlock(instanceLock, t)
                /\ frame' = [frame EXCEPT ![t].unlocks = @ + 1]
                /\ pc' = [pc EXCEPT ![t] = "pack"]
                /\ gil' = {t}
                /\ last' = NoCall
    /\ UNCHANGED <<stackLayout, mspDevice, mspResponse, osfds, alive, calls, codecVars, inq>>

\* return packResponse(&mspResponse), after the unlock
Pack(t) ==
    /\ alive /\ pc[t] = "pack"
    /\ Return(t, frame[t], Exc("none", packResponse(mspResponse, mspDevice.buf)))
    /\ UNCHANGED <<stackLayout, mspDevice, mspResponse, instanceLock, osfds, alive,
                   calls, codecVars, inq>>

(***************************************************************************)
(* The library used by NumThreads Python threads                           *)
(***************************************************************************)
Init ==
    /\ stackLayout = "unseen"
    /\ DeviceIdle
    /\ CodecIdle

(***************************************************************************)
(* Line bench: one caller uses an open MSP V1 device, and the output side  *)
(* of the serial line is followed byte by byte.                            *)
(*   outq       bytes written and not yet transmitted                      *)
(*   sent       number of bytes the line has transmitted                   *)
(*   discarded  bytes taken out of the output queue without being          *)
(*              transmitted                                                *)
(* Every call is one step: pyMsplinkGet, pyMsplinkSet and pyMsplinkClose   *)
(* from the lock to the return.                                            *)
(***************************************************************************)
MaxLineCalls == 3

NoLine == [outq |-> <<>>, sent |-> 0, discarded |-> <<>>]

\* tcflush(fd, TCIOFLUSH) on the output side: what was written and not yet
\* transmitted is discarded
tcflush_output(w) == [w EXCEPT !.discarded = @ \o w.outq, !.outq = <<>>]

\* write(fd, ...): the bytes the OS accepted wait in the output queue
LineWrite(w, tx) == [w EXCEPT !.outq = @ \o tx.out]

\* tcdrain(fd), and close(fd) of a terminal: returns when the output queue
\* has been transmitted
tcdrain(w) == [w EXCEPT !.sent = @ + Len(w.outq), !.outq = <<>>]

LineRequests ==
    [op : {"get"}, args : {a \in GetArgs : a.parse = "ok" /\ a.command = 108}]
    \cup [op : {"set"}, args : {a \in SetArgs : a.parse = "ok" /\ a.command = 108}]

InitLine ==
    /\ stackLayout = "unseen"
    /\ mspDevice = [InitialDevice EXCEPT !.device_open = 1, !.fd = 3,
                                         !.devname = "/dev/ttyACM0"]
    /\ mspResponse = NoPacket
    /\ instanceLock = {}
    /\ gil = {}
    /\ pc = [t \in Threads |-> "idle"]
    /\ frame = [t \in Threads |-> IdleFrame]
    /\ last = NoCall
    /\ osfds = {0, 1, 2, 3}
    /\ alive = TRUE
    /\ calls = 0
    /\ inq = <<>>
    /\ cPhase = "line"
    /\ cIn = [ver |-> 1, flag |-> 0, cmd |-> 0, len |-> 0, seed |-> 0,
              fault |-> [failAt |-> 0, failKind |-> "errno", accept |-> 0]]
    /\ cRetries = MSP_RETRY_DEFAULT
    /\ cSent = NoSend
    /\ cRes = NoResult
    /\ cWire = NoLine

\* pyMsplinkGet / pyMsplinkSet on the open device: flush, send, and the
\* parse (which drains first) unless the set does not wait
LineRequest ==
    /\ cPhase = "line" /\ calls < MaxLineCalls /\ ~not_open(mspDevice)
    /\ \E q \in LineRequests :
        LET f     == [IdleFrame EXCEPT !.op = q.op, !.args = q.args]
            pl    == RequestPayload(f)
            w1    == tcflush_output(cWire)
            s     == send_V1(NoTx, q.args.command % 256, pl, Len(pl))
            w2    == LineWrite(w1, s.tx)
            waits == q.op = "get" \/ wait_for_ack(q.args)
            r     == parse_packet(RxOf(FrameV1(MSP_DIR_TOHOST, q.args.command % 256,
                                               <<1, 2>>)),
                                  mspDevice.buf, mspResponse, mspDevice.read_retries)
        IN  /\ cSent' = s
            /\ cWire' = IF waits THEN tcdrain(w2) ELSE w2
            /\ cRes' = IF waits THEN r ELSE cRes
            /\ mspResponse' = IF waits THEN r.pkt ELSE mspResponse
            /\ mspDevice' = IF waits THEN [mspDevice EXCEPT !.buf = r.buf] ELSE mspDevice
            /\ last' = [NoCall EXCEPT
                            !.thread = 1, !.op = q.op, !.args = q.args, !.unlocks = 1,
                            !.exc = IF waits
                                    THEN throwPacketError(r.ret, r.pkt, mspDevice).exc
                                    ELSE "none",
                            !.value = IF waits THEN packResponse(r.pkt, r.buf) ELSE <<>>,
                            !.trace = IF waits THEN <<"flush", "send", "parse">>
                                      ELSE <<"flush", "send">>]
    /\ calls' = calls + 1
    /\ UNCHANGED <<stackLayout, instanceLock, gil, pc, frame, osfds, alive, inq,
                   cPhase, cIn, cRetries>>

\* pyMsplinkClose on the open device
LineClose ==
    /\ cPhase = "line" /\ calls < MaxLineCalls /\ ~not_open(mspDevice)
    /\ LET dev1 == [mspDevice EXCEPT !.devname = "NULL", !.device_open = 0]
           r    == msplink_close(dev1, osfds)
       IN  /\ mspDevice' = r.mdev
           /\ osfds' = r.fds
           /\ last' = [NoCall EXCEPT !.thread = 1, !.op = "close", !.unlocks = 1,
                                     !.exc = throwError(r.ret, r.mdev).exc,
                                     !.trace = <<"close">>]
    /\ cWire' = tcdrain(cWire)
    /\ calls' = calls + 1
    /\ UNCHANGED <<stackLayout, mspResponse, instanceLock, gil, pc, frame, alive, inq,
                   cPhase, cIn, cRetries, cSent, cRes>>

\* the line transmits the next byte of the output queue
Transmit ==
    /\ cPhase = "line" /\ cWire.outq # <<>>
    /\ cWire' = [cWire EXCEPT !.outq = Tail(@), !.sent = @ + 1]
    /\ last' = NoCall
    /\ UNCHANGED <<stackLayout, mspDevice, mspResponse, instanceLock, gil, pc, frame,
                   osfds, alive, calls, inq, cPhase, cIn, cRetries, cSent, cRes>>

NextLine == LineRequest \/ LineClose \/ Transmit

SpecLine == InitLine /\ [][NextLine]_vars

Next ==
    \E t \in Threads :
        \/ \E op \in Ops : Call(t, op)
        \/ BeginAllowThreads(t)
        \/ MutexLock(t)
        \/ EndAllowThreads(t)
        \/ OpenBody(t)
        \/ OpenIO(t)
        \/ OpenFinish(t)
        \/ CloseBody(t)
        \/ GetBody(t)
        \/ SetBody(t)
        \/ Flush(t)
        \/ AfterFlush(t)
        \/ Send(t)
        \/ AfterSend(t)
        \/ Parse(t)
        \/ AfterParse(t)
        \/ Pack(t)

Spec == Init /\ [][Next]_vars

CodecPayload == Payload(cIn.len, cIn.seed)
Encoded == cPhase = "sent" /\ cSent.ret = MSP_OK
Emitted == cSent.tx.out

(***************************************************************************)
(* C4: V1 round trip.  Feeding the bytes emitted by send_V1 to the decoder *)
(* yields success with version 'M', direction '<', the same command and   *)
(* payload, for every command 0..255 and payload length 0..1023.           *)
(***************************************************************************)
C4_RoundTripV1 ==
    (cPhase = "decoded" /\ cIn.ver = 1) =>
        /\ cRes.ret = MSP_OK
        /\ packResponse(cRes.pkt, cRes.buf) =
             [version |-> MSP_V1, direction |-> MSP_DIR_TOCLIENT, flag |-> "None",
              command |-> cIn.cmd, payload |-> CodecPayload,
              checksum |-> Emitted[Len(Emitted)]]

(***************************************************************************)
(* C5: V2 round trip.  Feeding the bytes emitted by send_V2 to the decoder *)
(* yields success with version 'X', direction '<', the same flag, command *)
(* and payload.                                                            *)
(***************************************************************************)
C5_RoundTripV2 ==
    (cPhase = "decoded" /\ cIn.ver = 2) =>
        /\ cRes.ret = MSP_OK
        /\ packResponse(cRes.pkt, cRes.buf) =
             [version |-> MSP_V2, direction |-> MSP_DIR_TOCLIENT, flag |-> cIn.flag,
              command |-> cIn.cmd, payload |-> CodecPayload,
              checksum |-> Emitted[Len(Emitted)]]

(***************************************************************************)
(* C6: a V1 payload longer than 254 bytes is emitted as '$' 'M' '<', size  *)
(* byte 255, command, the true length as two little-endian bytes, the     *)
(* payload, and the XOR of the size byte 255, the command, the two length  *)
(* bytes and the payload.                                                  *)
(***************************************************************************)
C6_V1JumboFrame ==
    (Encoded /\ cIn.ver = 1 /\ cIn.len > 254) =>
        LET head == <<255, cIn.cmd, cIn.len % 256, cIn.len \div 256>>
        IN  Emitted = <<SYNC_BYTE, MSP_V1, MSP_DIR_TOCLIENT>> \o head \o CodecPayload
                        \o <<XorAll(head \o CodecPayload)>>

(***************************************************************************)
(* C7: a V1 payload of length 0..254 is emitted as '$' 'M' '<', size byte  *)
(* = length, command, payload and the XOR of size, command and payload,    *)
(* with no JUMBO length bytes; from length 255 on the size byte is 255 and *)
(* two length bytes follow the command.                                    *)
(***************************************************************************)
C7_V1PlainFrame ==
    (Encoded /\ cIn.ver = 1) =>
        IF cIn.len <= 254
        THEN Emitted = <<SYNC_BYTE, MSP_V1, MSP_DIR_TOCLIENT, cIn.len, cIn.cmd>>
                         \o CodecPayload
                         \o <<XorAll(<<cIn.len, cIn.cmd>> \o CodecPayload)>>
        ELSE /\ Len(Emitted) = 5 + 2 + cIn.len + 1
             /\ Emitted[4] = 255
             /\ SubSeq(Emitted, 6, 7) = <<cIn.len % 256, cIn.len \div 256>>

C7_Witness == Encoded /\ cIn.ver = 1 /\ cIn.len = 254 /\ cIn.cmd = 108

(***************************************************************************)
(* C8: the V2 encoder emits '$' 'X' '<', flag, command (LE), payload       *)
(* length (LE), the payload, and CRC8/DVB-S2 with seed 0 over the five     *)
(* bytes flag..length-high chained over the payload.                       *)
(***************************************************************************)
C8_V2Frame ==
    (Encoded /\ cIn.ver = 2) =>
        LET head == <<cIn.flag, cIn.cmd % 256, cIn.cmd \div 256,
                      cIn.len % 256, cIn.len \div 256>>
        IN  Emitted = <<SYNC_BYTE, MSP_V2, MSP_DIR_TOCLIENT>> \o head \o CodecPayload
                        \o <<Crc8DvbS2(head \o CodecPayload)>>

(***************************************************************************)
(* Properties of the transaction layer                                     *)
(***************************************************************************)
\* positions between the return of pthread_mutex_lock and pthread_mutex_unlock
Inside == {"end", "body", "io_open", "after_open", "io_flush", "after_flush",
           "io_send", "after_send", "io_parse", "after_parse"}

\* positions at which a transport operation is about to be executed
AtTransport == {"io_open", "io_flush", "io_send", "io_parse"}

\* positions at which a thread waits for the interpreter lock
GilWaits == {"end", "after_open", "after_flush", "after_send", "after_parse"}

Range(seq) == {seq[i] : i \in DOMAIN seq}

(***************************************************************************)
(* C1: mutual exclusion.  At most one thread at a time is between          *)
(* acquiring and releasing the device mutex, so the transport operations   *)
(* of two calls never interleave, and a thread that wants the mutex while  *)
(* another one is inside cannot proceed.                                   *)
(***************************************************************************)
C1_MutualExclusion ==
    /\ \A t1, t2 \in Threads : (pc[t1] \in Inside /\ pc[t2] \in Inside) => t1 = t2
    /\ \A t \in Threads : pc[t] \in Inside => instanceLock = {t}
    /\ \A t \in Threads :
          (pc[t] = "lock" /\ \E u \in Threads : pc[u] \in Inside) => ~ENABLED MutexLock(t)

C1_Witness ==
    \E t1, t2 \in Threads : pc[t1] = "io_parse" /\ pc[t2] = "lock"

(***************************************************************************)
(* C2: every call releases the device mutex exactly once before it         *)
(* returns, on every exit path; when no call is between lock and unlock    *)
(* the mutex is free.                                                      *)
(***************************************************************************)
C2_MutexReleased ==
    /\ last.op # "none" => (last.unlocks = 1 /\ last.thread \notin instanceLock)
    /\ (\A t \in Threads : pc[t] \notin Inside) => instanceLock = {}

C2_Witness ==
    /\ last.op = "get" /\ last.exc = "msplink.NoResponse"
    /\ \A t \in Threads : pc[t] = "idle"

(***************************************************************************)
(* C3: no deadlock between the interpreter lock and the device mutex.  A   *)
(* thread never waits for the device mutex while it holds the interpreter  *)
(* lock, and the threads are never all blocked on one of the two locks.    *)
(***************************************************************************)
BlockedOnLock(t) ==
    \/ pc[t] = "lock" /\ instanceLock # {}
    \/ pc[t] \in GilWaits /\ ~(gil \subseteq {t})

C3_NoLockDeadlock ==
    /\ \A t \in Threads : pc[t] = "lock" => t \notin gil
    /\ alive => ~(\A t \in Threads : BlockedOnLock(t))

C3_Witness ==
    \E t1, t2 \in Threads :
        /\ pc[t1] = "lock" /\ instanceLock = {t2}
        /\ pc[t2] \in GilWaits /\ gil = {}

(***************************************************************************)
(* C9: an open call that omits read_retries uses 3 read retries and one    *)
(* that omits msp_version uses MSP version 1, whatever earlier open calls  *)
(* were given.                                                             *)
(***************************************************************************)
C9_OpenDefaults ==
    (last.op = "open" /\ last.exc = "none") =>
        /\ last.args.read_retries = <<>> => mspDevice.read_retries = MSP_RETRY_DEFAULT
        /\ last.args.msp_version = <<>> => mspDevice.mspversion = 1

(***************************************************************************)
(* C10: open with msp_version outside {1,2} or read_retries <= 0 fails     *)
(* with an argument error, never invokes the transport open, and leaves    *)
(* the device not open.                                                    *)
(***************************************************************************)
BadOpenArgs(a) ==
    \/ a.msp_version # <<>> /\ a.msp_version[1] \notin {1, 2}
    \/ a.read_retries # <<>> /\ a.read_retries[1] <= 0

C11_OpenOnOpenDevice ==
    [][\A t \in Threads :
          (/\ pc[t] = "body" /\ frame[t].op = "open"
           /\ mspDevice.device_open # 0
           /\ pc'[t] # "body")
          => /\ pc'[t] = "idle"
             /\ last'.op = "open"
             /\ last'.exc = "msplink.Exception"
             /\ last'.value = "already open"
             /\ last'.trace = <<>>
             /\ mspDevice' = mspDevice
             /\ osfds' = osfds]_vars

C11_Witness ==
    /\ last.op = "open" /\ last.exc = "msplink.Exception"
    /\ mspDevice.device_open = 1
    /\ last.args.msp_version = <<2>> /\ mspDevice.mspversion = 1

(***************************************************************************)
(* C12: get and set on a device that is not open (never opened, opened     *)
(* unsuccessfully, or closed) fail without any transport operation, in any *)
(* sequence of calls: no thread is ever at or behind a flush, write,       *)
(* drain or read of a request while the device is not open.                *)
(***************************************************************************)
RequestPositions == {"io_flush", "after_flush", "io_send", "after_send", "io_parse",
                     "after_parse", "pack"}

C12_NoRequestWhenNotOpen ==
    /\ mspDevice.device_open = 0 => \A t \in Threads : pc[t] \notin RequestPositions
    /\ (last.op \in {"get", "set"} /\ mspDevice.device_open = 0) =>
          /\ last.exc = "msplink.Exception"
          /\ last.value = "not open"
          /\ last.trace = <<>>

\* a get after an open that failed in the OS
C12_Witness ==
    /\ last.op = "get" /\ last.exc = "msplink.Exception"
    /\ mspDevice.device_open = 0 /\ mspDevice.fd = -1

(***************************************************************************)
(* C13: on a device opened with MSP version 1, a get or set with a command *)
(* above 255 fails with an argument error, writes no byte of a request     *)
(* frame and leaves the device open.                                       *)
(***************************************************************************)
C13_V1CommandRange ==
    (/\ last.op \in {"get", "set"}
     /\ mspDevice.device_open = 1 /\ mspDevice.mspversion = 1
     /\ last.args.parse = "ok" /\ last.args.command > 255)
    => /\ last.exc = "ValueError"
       /\ "send" \notin Range(last.trace)
       /\ mspDevice.device_open = 1

(***************************************************************************)
(* Properties of the decoder, stated on the decoder bench                  *)
(***************************************************************************)
Parsed == cPhase = "parsed"
NoOsFault == cWire.failAt = 0 /\ ~cWire.drainFails
SyncFound == cWire.junk < MAX_SYNC_SEARCH_BYTES
Complete == cWire.cut = 0
Fits == cWire.size <= READ_BUFFER_SIZE - 1

\* the frame on the line, field by field
WirePacket ==
    [version   |-> IF cWire.ver = 2 THEN MSP_V2 ELSE MSP_V1,
     direction |-> cWire.dir,
     flag      |-> IF cWire.ver = 2 THEN cWire.flag ELSE "None",
     command   |-> cWire.cmd,
     payload   |-> WirePayload(cWire),
     checksum  |-> WireSum(cWire)]

\* bytes of the line the decoder has taken
Consumed == Len(WireBytes(cWire)) - Len(cRes.rx.q)

(***************************************************************************)
(* C14: the decoder reports NACK exactly when the frame parsed (header     *)
(* and payload read, checksum right) and its direction byte is '!'; the    *)
(* NACK carries the decoded packet (24 4D 21 00 6C 6C: V1, command 0x6C,   *)
(* empty payload).  A frame with direction '!' and a wrong checksum is     *)
(* reported as checksum mismatch.                                          *)
(***************************************************************************)
C14_Nack ==
    (Parsed /\ NoOsFault) =>
        /\ cRes.ret = MSP_RX_CLIENT_NACK <=>
              (/\ SyncFound /\ Complete /\ Fits
               /\ cWire.sum = "good" /\ cWire.dir = MSP_DIR_ERROR)
        /\ cRes.ret = MSP_RX_CLIENT_NACK =>
              packResponse(cRes.pkt, cRes.buf) = WirePacket
        /\ (/\ SyncFound /\ Complete /\ Fits
            /\ cWire.sum = "bad" /\ cWire.dir = MSP_DIR_ERROR)
           => cRes.ret = MSP_RX_CHECKSUM_MISMATCH

(***************************************************************************)
(* C15: a frame whose checksum byte differs from the checksum of its       *)
(* header fields and payload is reported as checksum mismatch, and the     *)
(* packet attached holds version, direction, command, payload and          *)
(* checksum byte as they were on the line.                                 *)
(***************************************************************************)
C15_BadChecksum ==
    (Parsed /\ NoOsFault /\ SyncFound /\ Complete /\ Fits /\ cWire.sum = "bad") =>
        /\ cRes.ret = MSP_RX_CHECKSUM_MISMATCH
        /\ packResponse(cRes.pkt, cRes.buf) = WirePacket

(***************************************************************************)
(* C16: no-response is reported exactly when the sync byte was not found   *)
(* within 50 bytes or a read ran out of retries before the bytes it needs  *)
(* had arrived; a failing system call is reported as an OS error.          *)
(***************************************************************************)
\* a system call of the transport has failed during the parse
OsFailed == cWire.drainFails \/ (cWire.failAt # 0 /\ cRes.rx.reads >= cWire.failAt)

\* the bytes of the frame the decoder needs have not all arrived
Starved ==
    Len(Cut(WireFrame(cWire), cWire.cut))
        < 3 + Len(WireHeader(cWire)) + (IF Fits THEN cWire.size + 1 ELSE 0)

\* the exception get and set raise for the decoder's result
Reported ==
    throwPacketError(cRes.ret, cRes.pkt,
                     [InitialDevice EXCEPT !.buf = cRes.buf, !.errornum = "EIO"]).exc

C16_NoResponse ==
    Parsed =>
        /\ OsFailed => Reported = "OSError"
        /\ ~OsFailed => (Reported = "msplink.NoResponse" <=> (~SyncFound \/ Starved))

(***************************************************************************)
(* C17: a V1 JUMBO frame or a V2 frame that declares a payload of 1024     *)
(* bytes or more is answered with buffer-too-small without any payload     *)
(* byte being read; a declared payload of 1023 bytes is read in full.      *)
(***************************************************************************)
C17_BufferTooSmall ==
    (Parsed /\ NoOsFault /\ SyncFound /\ Complete) =>
        /\ ~Fits =>
              /\ cRes.ret = MSP_OUT_OF_MEMORY
              /\ Consumed = cWire.junk + 3 + Len(WireHeader(cWire))
              /\ cRes.buf = <<>>
        /\ (cWire.size = READ_BUFFER_SIZE - 1 /\ cWire.sum = "good") =>
              /\ cRes.ret = MSP_OK
              /\ cRes.rx.q = <<>>
              /\ packResponse(cRes.pkt, cRes.buf).payload = WirePayload(cWire)

(***************************************************************************)
(* C18: with k bytes other than '$' in front of a valid frame the decoder  *)
(* succeeds for k = 0..49 and returns sync-not-found for k = 50; it takes  *)
(* at most 50 bytes looking for '$'.                                       *)
(***************************************************************************)
C18_SyncSearch ==
    (/\ Parsed /\ NoOsFault /\ Complete /\ Fits
     /\ cWire.sum = "good" /\ cWire.dir # MSP_DIR_ERROR)
    => IF SyncFound
       THEN cRes.ret = MSP_OK /\ packResponse(cRes.pkt, cRes.buf) = WirePacket
       ELSE cRes.ret = MSP_RX_SYNC_NOT_FOUND /\ Consumed = MAX_SYNC_SEARCH_BYTES

(***************************************************************************)
(* C19: the bytes queued on the line when a get or set begins are          *)
(* discarded before the request frame is written, so the parse of that     *)
(* call reads none of them, whatever transactions came before.             *)
(***************************************************************************)
C19_FlushBeforeRequest ==
    \A t \in Threads :
        /\ pc[t] \in {"io_send", "after_send", "io_parse"} => inq = <<>>
        /\ (frame[t].op \in {"get", "set"} /\ frame[t].trace # <<>>) =>
              frame[t].trace[1] = "flush"

\* a request that began with bytes on the line has reached its parse
C19_Witness ==
    \E t \in Threads : pc[t] = "io_parse" /\ frame[t].stale

(***************************************************************************)
(* C20: set with wait_for_ack=false returns nothing once the request frame *)
(* is written: it never drains, reads or parses, so it never fails with    *)
(* no-response, bad-checksum or NACK; set with wait_for_ack=true returns    *)
(* the ACK packet that its own parse decoded.                              *)
(***************************************************************************)
ParsePositions == {"io_parse", "after_parse", "pack"}

ResponseFailures == {"msplink.NoResponse", "msplink.BadChecksum", "msplink.NACK"}

C20_SetWithoutAck ==
    /\ \A t \in Threads :
          /\ (frame[t].op = "set" /\ pc[t] \in ParsePositions) =>
                frame[t].args.wait_for_ack
          /\ pc[t] \in ParsePositions =>
                \A u \in Threads \ {t} : pc[u] \notin ParsePositions
    /\ (last.op = "set" /\ last.args.parse = "ok" /\ ~last.args.wait_for_ack) =>
          /\ "parse" \notin Range(last.trace)
          /\ last.exc \notin ResponseFailures
          /\ last.exc = "none" => (last.trace = <<"flush", "send">> /\ last.value = <<>>)
    /\ (last.op = "set" /\ last.args.parse = "ok" /\ last.args.wait_for_ack
            /\ last.exc = "none") =>
          /\ last.trace = <<"flush", "send", "parse">>
          /\ last.value = packResponse(mspResponse, mspDevice.buf)

\* a set that does not wait has returned with its frame written and the
\* answer to it still on the line
C20_Witness ==
    /\ last.op = "set" /\ last.exc = "none" /\ ~last.args.wait_for_ack
    /\ last.trace = <<"flush", "send">> /\ inq # <<>>

(***************************************************************************)
(* C21: close always leaves the device marked not open; closing a device   *)
(* that is not open is a warning and not a failure; an open that follows   *)
(* a close is never rejected as already open.                              *)
(***************************************************************************)
C21_CloseMarksNotOpen ==
    /\ last.op = "close" => mspDevice.device_open = 0
    /\ (last.op = "close" /\ last.warning) => last.exc = "none"
    /\ (last.op = "open" /\ last.exc = "msplink.Exception"
           /\ last.value = "already open") => mspDevice.device_open # 0

(***************************************************************************)
(* Properties of msplink_read (read bench)                                 *)
(***************************************************************************)
Stored == cPhase = "stored"

\* the stream of the bench, whole
ReadStream == Segment(0, cWire.first + SumTo(cWire.chunks, Len(cWire.chunks)))

\* how many of `missing` bytes are still missing after at most k read
\* calls that each ask for what is missing, on a line without faults
RECURSIVE StillMissing(_, _, _)
StillMissing(rx, missing, k) ==
    IF k = 0 \/ missing = 0 THEN missing
    ELSE LET r == os_read(rx, missing)
         IN  StillMissing(r.rx, missing - r.ret, k - 1)

Faultless(rx) == [rx EXCEPT !.failAt = 0]

(***************************************************************************)
(* C22: msplink_read returns receive failure only if fewer than len bytes  *)
(* arrived in its read_retries read calls; when the bytes of at most       *)
(* read_retries calls reach len, the last call and read_retries = 1        *)
(* included, it returns success.                                           *)
(***************************************************************************)
C22_ReadExact ==
    (Stored /\ StillMissing(Faultless(ReadRx(cWire)), cWire.len, cRetries) = 0
        /\ (cWire.failAt = 0 \/ cWire.failAt > cRetries)) =>
        /\ cRes.ret >= 0
        /\ cRes.data = SubSeq(ReadStream, 1, cWire.len)

(***************************************************************************)
(* C30: msplink_read issues at most read_retries read calls and every call *)
(* uses one of them up, whatever it returned; each call asks for the bytes *)
(* still missing and stores them behind those already received; success   *)
(* is returned only with exactly len bytes stored; a failing read call is  *)
(* returned at once as syscall failure.                                    *)
(***************************************************************************)
RECURSIVE Flatten(_)
Flatten(pieces) == IF pieces = <<>> THEN <<>> ELSE Head(pieces) \o Flatten(Tail(pieces))

\* the read calls msplink_read issued, and those of them that returned data
ReadCalls == cRes.rx.reads
ReadFailed == cWire.failAt \in 1..ReadCalls
ReadsAnswered == IF ReadFailed THEN ReadCalls - 1 ELSE ReadCalls

C30_ReadCalls ==
    Stored =>
        /\ ReadCalls <= cRetries
        /\ cRes.ret = MSP_RX_FAIL => ReadCalls = cRetries
        /\ cRes.ret = MSP_SYSCALL_FAIL <=> ReadFailed
        /\ ReadFailed => ReadCalls = cWire.failAt
        /\ Len(cRes.data) =
              cWire.len - StillMissing(Faultless(ReadRx(cWire)), cWire.len, ReadsAnswered)
        /\ cRes.data = SubSeq(ReadStream, 1, Len(cRes.data))
        /\ cRes.data \o cRes.rx.q \o Flatten(cRes.rx.pend) = ReadStream
        /\ cRes.ret >= 0 => (cRes.ret = cWire.len /\ Len(cRes.data) = cWire.len)

\* two bytes that arrive one at a time are stored by the first two of
\* three read calls
C30_Witness ==
    /\ Stored /\ cWire.len = 2 /\ cWire.first = 1 /\ cWire.chunks = <<1>>
    /\ cRes.ret = 2 /\ cRes.data = <<1, 2>> /\ ReadCalls = 3

(***************************************************************************)
(* Properties of the decoder on tunnelled frames (tunnel bench)            *)
(***************************************************************************)
\* what the inner V2 frame alone decides
InnerOutcome ==
    IF cWire.crc = "bad" THEN MSP_RX_CHECKSUM_MISMATCH
    ELSE IF cWire.dir = MSP_DIR_ERROR THEN MSP_RX_CLIENT_NACK
    ELSE MSP_OK

(***************************************************************************)
(* C23: a V1 frame with command 255 is decoded as a tunnel: the decoder    *)
(* reads the inner V2 header, payload and CRC8, the outcome depends on the *)
(* inner CRC8 alone and never on the V1 checksum, and command, payload and *)
(* checksum of the packet are those of the inner frame.                    *)
(***************************************************************************)
C23_Tunnel ==
    Parsed =>
        /\ cRes.ret = InnerOutcome
        /\ cRes.pkt.function = cWire.cmd
        /\ cRes.pkt.payload_size = cWire.len
        /\ cRes.pkt.checksum = InnerCrc(cWire)
        /\ packResponse(cRes.pkt, cRes.buf).payload = Payload(cWire.len, cWire.cmd)

(***************************************************************************)
(* C24: when a tunnelled V2 frame is parsed successfully the trailing V1   *)
(* checksum byte of the wrapper has been consumed: no byte of the wrapper  *)
(* frame is left on the line.                                              *)
(***************************************************************************)
C24_WrapperConsumed ==
    (Parsed /\ cRes.ret = MSP_OK /\ cWire.v1sum # "none") => cRes.rx.q = <<>>

(***************************************************************************)
(* C25: whenever the device is not open (before the first open, after a    *)
(* failed open, after a close) its handle is no open descriptor and the    *)
(* library holds no descriptor of the serial device.                       *)
(***************************************************************************)
StandardStreams == {0, 1, 2}

C25_NoHandleWhenNotOpen ==
    (mspDevice.device_open = 0 /\ instanceLock = {}) =>
        /\ mspDevice.fd \notin osfds
        /\ osfds \subseteq StandardStreams

(***************************************************************************)
(* C26: the step that copies the packet out of the receive buffer, for the *)
(* result of get or set as for the packet attached to NACK and             *)
(* bad-checksum, runs while the calling thread holds the device mutex.     *)
(***************************************************************************)
C26_CopyUnderMutex ==
    \A t \in Threads : pc[t] \in {"after_parse", "pack"} => instanceLock = {t}

(***************************************************************************)
(* C27: the receive buffer and the response record are never observed      *)
(* mid-parse: from the end of a thread's parse to its return no other      *)
(* thread's decoder runs, buffer and record stay as that parse left them,  *)
(* and the packet returned or attached to the error is the one they hold.  *)
(***************************************************************************)
CopiedPacket == {"none", "msplink.NACK", "msplink.BadChecksum"}

C27_NotObservedMidParse ==
    [][\A t \in Threads :
          pc[t] \in {"after_parse", "pack"} =>
              /\ \A u \in Threads \ {t} : pc[u] # "io_parse"
              /\ mspResponse' = mspResponse
              /\ mspDevice'.buf = mspDevice.buf
              /\ (pc'[t] = "idle" /\ last'.exc \in CopiedPacket) =>
                    last'.value = packResponse(mspResponse, mspDevice.buf)]_vars

\* a thread is about to copy its packet while another thread has already
\* taken the mutex for its own request
C27_Witness ==
    \E t, u \in Threads :
        /\ pc[t] = "pack" /\ instanceLock = {u} /\ u # t
        /\ frame[u].op \in {"get", "set"}

(***************************************************************************)
(* C28: whatever is on the line, the decoder stores at most                *)
(* payload_size + 1 <= 1024 bytes into the receive buffer, and every       *)
(* packet it surfaces (result, NACK, bad checksum) has a payload of        *)
(* payload_size <= 1023 bytes with its checksum the byte stored behind.    *)
(***************************************************************************)
Surfaced == cRes.ret \in {MSP_OK, MSP_RX_CLIENT_NACK, MSP_RX_CHECKSUM_MISMATCH}

C28_BufferBound ==
    Parsed =>
        /\ Len(cRes.buf) <= READ_BUFFER_SIZE
        /\ cRes.buf # <<>> => Len(cRes.buf) <= cRes.pkt.payload_size + 1
        /\ Surfaced =>
              /\ cRes.pkt.payload_size <= READ_BUFFER_SIZE - 1
              /\ cRes.pkt.payload = "buf"
              /\ Len(cRes.buf) = cRes.pkt.payload_size + 1
              /\ cRes.pkt.checksum = cRes.buf[cRes.pkt.payload_size + 1]
              /\ Len(packResponse(cRes.pkt, cRes.buf).payload) = cRes.pkt.payload_size

\* the largest packet the buffer takes has been surfaced
C28_Witness ==
    /\ Parsed /\ cRes.ret = MSP_OK
    /\ cRes.pkt.payload_size = READ_BUFFER_SIZE - 1 /\ Len(cRes.buf) = READ_BUFFER_SIZE

(***************************************************************************)
(* C29: in every get and every set that waits, on an open device with      *)
(* valid arguments, the transport is used in this order: one flush, the    *)
(* writes of one request frame, one drain, the reads of one parse.  No     *)
(* read is issued before the drain completed, and nothing is written       *)
(* again after a failure.                                                  *)
(***************************************************************************)
IsPrefix(a, b) == Len(a) <= Len(b) /\ a = SubSeq(b, 1, Len(a))

TransportOrder == <<"flush", "send", "parse">>

\* the length of the request frame of f in the device's MSP version
RequestLength(f) ==
    Len(RequestPayload(f)) + (IF mspDevice.mspversion = 1 THEN 6 ELSE 9)

C29_TransportOrder ==
    /\ \A t \in Threads :
          LET f == frame[t]
          IN  f.op \in {"get", "set"} =>
                /\ IsPrefix(f.trace, TransportOrder)
                /\ f.tx.writes > 0 => "send" \in Range(f.trace)
                /\ (f.rx.drains > 0 \/ f.rx.reads > 0) => "parse" \in Range(f.trace)
                /\ "parse" \in Range(f.trace) =>
                      /\ f.rx.drains = 1
                      /\ f.rx.reads > 0 => ~f.rx.drainFails
                      /\ Len(f.tx.out) = RequestLength(f)
                      /\ f.tx.out[1] = SYNC_BYTE /\ f.tx.out[3] = MSP_DIR_TOCLIENT
    /\ last.op \in {"get", "set"} =>
          /\ IsPrefix(last.trace, TransportOrder)
          /\ (last.exc = "none" /\ (last.op = "get" \/ last.args.wait_for_ack)) =>
                last.trace = TransportOrder

\* a request has flushed, written its frame, drained and read its answer
C29_Witness ==
    \E t \in Threads :
        /\ pc[t] = "pack" /\ frame[t].trace = TransportOrder
        /\ frame[t].tx.writes > 0 /\ frame[t].rx.drains = 1 /\ frame[t].rx.reads > 0

(***************************************************************************)
(* C31: every parse ends after a bounded number of read calls.  With      *)
(* retry count R it makes at most 50*R read calls while it looks for '$'   *)
(* and at most R read calls for each of the reads of the header, the       *)
(* version header, the JUMBO length and the body, whatever is or is not    *)
(* on the line; a parse whose drain fails reads nothing.                   *)
(***************************************************************************)
\* the reads parse_packet makes behind the sync search for the frame on the line
HeaderReads == IF cWire.ver = 1 /\ cWire.size > 254 THEN 4 ELSE 3

\* the bytes the sync search can look at before it has to stop
SyncReads == Min(cWire.junk + 1, MAX_SYNC_SEARCH_BYTES)

C31_ReadBound ==
    Parsed =>
        /\ cRes.rx.reads <= (SyncReads + HeaderReads) * cRetries
        /\ cRes.ret = MSP_RX_SYNC_NOT_FOUND =>
              cRes.rx.reads <= MAX_SYNC_SEARCH_BYTES * cRetries
        /\ cWire.drainFails => cRes.rx.reads = 0

\* the sync search has looked at 50 bytes and given up
C31_Witness ==
    /\ Parsed /\ cWire.junk = MAX_SYNC_SEARCH_BYTES /\ cRetries > 1
    /\ cRes.ret = MSP_RX_SYNC_NOT_FOUND
    /\ cRes.rx.reads = MAX_SYNC_SEARCH_BYTES * 2

(***************************************************************************)
(* C32: every packet the decoder surfaces, as a success or attached to     *)
(* NACK or bad checksum, has a direction out of '<', '>', '!'; a header    *)
(* whose second byte is another value produces no packet.                  *)
(***************************************************************************)
Directions == {MSP_DIR_TOCLIENT, MSP_DIR_TOHOST, MSP_DIR_ERROR}

C32_DirectionChecked ==
    (Parsed /\ Surfaced) =>
        /\ cRes.pkt.direction \in Directions
        /\ packResponse(cRes.pkt, cRes.buf).direction \in Directions

(***************************************************************************)
(* C33: a packet decoded through the V2-in-V1 tunnel is surfaced as a V2   *)
(* response: its version is 'X' and its flag is the flag byte of the inner *)
(* V2 header, not the None of a V1 packet.                                 *)
(***************************************************************************)
C33_TunnelSurfacedAsV2 ==
    (Parsed /\ Surfaced) =>
        /\ packResponse(cRes.pkt, cRes.buf).version = MSP_V2
        /\ packResponse(cRes.pkt, cRes.buf).flag = cWire.flag

(***************************************************************************)
(* C34: a V1 header with size byte 255 and command byte 255 first takes    *)
(* the two JUMBO length bytes and then enters the V2 tunnel.  The JUMBO    *)
(* length value has no effect on the decoded packet, whose payload size    *)
(* comes from the V2 header alone.                                         *)
(***************************************************************************)
\* the same inner frame behind the other JUMBO length value
OtherJumbo ==
    [cWire EXCEPT !.wrap = IF @ = "jumbo" THEN "jumbo_other" ELSE "jumbo"]

\* the bytes of the line the decoder takes: all but the wrapper's checksum
TunnelTaken == 3 + Len(WrapperHeader(cWire)) + Len(InnerBytes(cWire))

C34_JumboTunnel ==
    (Parsed /\ cWire.wrap # "plain") =>
        LET other == parse_packet(RxOf(TunnelFrame(OtherJumbo)), <<>>, NoPacket,
                                  cRetries)
        IN  /\ cRes.ret = other.ret /\ cRes.pkt = other.pkt /\ cRes.buf = other.buf
            /\ cRes.pkt.payload_size = cWire.len
            /\ cRes.pkt.function = cWire.cmd /\ cRes.pkt.flag = cWire.flag
            /\ Len(TunnelFrame(cWire)) - Len(cRes.rx.q) = TunnelTaken

(***************************************************************************)
(* C35: seed chaining does not depend on the chunking, for both checksums: *)
(* the checksum of a followed by b from seed s is the checksum of b seeded *)
(* with the checksum of a from s; an empty sequence returns the seed.      *)
(***************************************************************************)
Summed == cPhase = "summed"

C35_SeedChaining ==
    Summed =>
        /\ cRes.xor_whole = cRes.xor_chained
        /\ cRes.crc_whole = cRes.crc_chained
        /\ cWire.a \o cWire.b = <<>> =>
              (cRes.xor_whole = cWire.seed /\ cRes.crc_whole = cWire.seed)
        /\ cRes.xor_whole \in 0..255 /\ cRes.crc_whole \in 0..255

\* two chunks of two bytes from a seed other than 0, where seed and chunking matter
C35_Witness ==
    /\ Summed /\ cWire.seed = 170 /\ cWire.a = <<1, 128>> /\ cWire.b = <<255, 1>>
    /\ cRes.xor_whole = 213
    /\ cRes.crc_whole # checksum_crc8_dvb_s2(cWire.a \o cWire.b, 4, 0)

(***************************************************************************)
(* C36: when a write issued while a request is encoded fails (the system   *)
(* call fails, or fewer bytes are accepted than asked for), the encoder    *)
(* returns that error at once and writes nothing more of the frame, and    *)
(* the get or set returns the error without draining, reading or parsing   *)
(* a response.                                                             *)
(***************************************************************************)
\* the write that was to misbehave has been issued
WriteFailed(tx) == tx.failAt # 0 /\ tx.writes >= tx.failAt

\* the exceptions get and set raise for a failed write
WriteErrors == {throwError(MSP_SYSCALL_FAIL, mspDevice).exc,
                throwError(MSP_TX_FAIL, mspDevice).exc}

ConfiguredVersion == IF mspDevice.mspversion = 1 THEN MSP_V1 ELSE MSP_V2

C37_ResponseAnswersRequest ==
    (/\ last.op \in {"get", "set"} /\ last.exc = "none"
     /\ (last.op = "get" \/ last.args.wait_for_ack))
    => /\ last.value.command = last.args.command
       /\ last.value.version = ConfiguredVersion

(***************************************************************************)
(* C38: every byte of a request frame written by a set without             *)
(* wait_for_ack that returned success is eventually transmitted: no later  *)
(* get, set or close takes bytes of that frame out of the output queue.    *)
(***************************************************************************)
C38_OutputTransmitted == cPhase = "line" => cWire.discarded = <<>>

(***************************************************************************)
(* C39: close hands to the OS close only a descriptor that this device got *)
(* from its own successful OS open and has not closed yet.  A close on a   *)
(* device that was never opened or is already closed closes no descriptor: *)
(* the descriptors the process had before (0 among them, the value of the  *)
(* handle initially and after a successful close) stay open.               *)
(***************************************************************************)
C39_ClosesOwnDescriptorOnly == StandardStreams \subseteq osfds

(***************************************************************************)
(* C40: while it builds a request header the V2 encoder stores and reads   *)
(* only indices inside its local header buffer: every header byte stored,  *)
(* every byte handed to the transport write and every byte fed to the CRC  *)
(* lies within the declared size of the buffer.                            *)
(***************************************************************************)
\* the indices of buf that send_V2 stores to, hands to the write, feeds to the CRC
HeaderStores == 0..(Len(send_V2_header(cIn.flag, cIn.cmd, cIn.len)) - 1)
HeaderWritten == 0..(SEND_V2_HEADER_LEN - 1)
HeaderSummed == SEND_V2_CRC_FROM..(SEND_V2_CRC_FROM + SEND_V2_CRC_LEN - 1)

C40_HeaderWithinBuffer ==
    (Encoded /\ cIn.ver = 2) =>
        \A i \in HeaderStores \cup HeaderWritten \cup HeaderSummed :
            i < SEND_V2_BUF_SIZE

====
